---------------------------- MODULE Spec2Model ----------------------------
(***************************************************************************)
(* Motion-vector candidate derivation of libgav1 (src/motion_vector.cc):   *)
(* FindMvStack and the helpers it calls, modelled as state machines.       *)
(*                                                                         *)
(* A MotionVector is a pair <<row, column>> (mv[0], mv[1]) of int16        *)
(* components, a CompoundMotionVector a pair <<mv0, mv1>> of those.        *)
(* C arrays are functions on 0 .. size-1.                                  *)
(***************************************************************************)
EXTENDS Integers, Sequences, FiniteSets, TLC

(***************************************************************************)
(* Program constants.                                                      *)
(***************************************************************************)
kMaxRefMvStackSize == 8
kMaxFrameDistance == 31
kProjectionMvClamp == 16383
kInvalidMvValue == -32768
kWarpedModelPrecisionBits == 16

kReferenceFrameNone == -1
kReferenceFrameIntra == 0
kReferenceFrameLast == 1
kReferenceFrameLast2 == 2
kReferenceFrameBackward == 5
kReferenceFrameAlternate == 7

kGlobalMotionTransformationTypeIdentity == 0
kGlobalMotionTransformationTypeTranslation == 1
kGlobalMotionTransformationTypeRotZoom == 2
kGlobalMotionTransformationTypeAffine == 3

(***************************************************************************)
(* Integer helpers of src/utils/common.h.                                  *)
(***************************************************************************)
Abs(x) == IF x < 0 THEN -x ELSE x

Max(a, b) == IF a > b THEN a ELSE b

Min(a, b) == IF a < b THEN a ELSE b

Pow2(n) == 2 ^ n

\* x >> n on a signed int (arithmetic shift).
ShiftRight(x, n) == x \div Pow2(n)

\* static_cast<int16_t>(x)
Int16(x) == ((x + 32768) % 65536) - 32768

Clip3(value, low, high) ==
    IF value < low THEN low ELSE IF value > high THEN high ELSE value

\* (value ^ sign) - sign, with sign 0 or -1.
ApplySign(value, sign) == IF sign = -1 THEN -value ELSE value

RightShiftWithRounding(value, bits) ==
    ShiftRight(value + ShiftRight(Pow2(bits), 1), bits)

RightShiftWithRoundingSigned(value, bits) ==
    IF value >= 0 THEN RightShiftWithRounding(value, bits)
                  ELSE -RightShiftWithRounding(-value, bits)

\* kProjectionMvDivisionLookup[d], the table of 16384 / d.
kProjectionMvDivisionLookup(d) == IF d = 0 THEN 0 ELSE 16384 \div d

ZeroMv == <<0, 0>>

NegateMv(mv) == <<Int16(mv[1] * (-1)), Int16(mv[2] * (-1))>>

(***************************************************************************)
(* 7.10.2.10  LowerMvPrecision, on one component and on a vector.          *)
(***************************************************************************)
\* LowerMvComponent with the integer rounding dropped: an integer-only frame
\* is treated like a frame without high precision.
LowerMvComponent_NoIntegerRounding(allow_high_precision_mv, force_integer_mv, mv) ==
    IF allow_high_precision_mv THEN mv
    ELSE IF mv % 2 # 0
           THEN Int16(mv - (IF ShiftRight(mv, 15) = -1 THEN -1 ELSE 1))
           ELSE mv

\* LowerMvComponent moving an odd component away from zero.
LowerMvComponent_AwayFromZero(allow_high_precision_mv, force_integer_mv, mv) ==
    IF allow_high_precision_mv THEN mv
    ELSE IF force_integer_mv
      THEN LET value == (Abs(mv) + 3) - ((Abs(mv) + 3) % 8)
               sign == ShiftRight(mv, 15)
           IN  Int16(ApplySign(value, sign))
      ELSE IF mv % 2 # 0
             THEN Int16(mv + (IF ShiftRight(mv, 15) = -1 THEN -1 ELSE 1))
             ELSE mv

LowerMvComponent(allow_high_precision_mv, force_integer_mv, mv) ==
    IF allow_high_precision_mv THEN mv
    ELSE IF force_integer_mv
      THEN LET value == (Abs(mv) + 3) - ((Abs(mv) + 3) % 8)
               sign == ShiftRight(mv, 15)
           IN  Int16(ApplySign(value, sign))
      ELSE IF mv % 2 # 0
             THEN Int16(mv - (IF ShiftRight(mv, 15) = -1 THEN -1 ELSE 1))
             ELSE mv

LowerMvPrecision(frame_header, mv) ==
    LET hp == frame_header.allow_high_precision_mv
        fi == frame_header.force_integer_mv
    IN  << LowerMvComponent(hp, fi, mv[1]), LowerMvComponent(hp, fi, mv[2]) >>

(***************************************************************************)
(* 7.9.3  GetMvProjection.  The product and the rounding are computed in   *)
(* int: a product beyond 32 bits wraps, as the two's complement builds     *)
(* compute it.                                                             *)
(***************************************************************************)
\* -x in int.
NegateInt32(x) == IF x = -2147483647 - 1 THEN x ELSE -x

\* x + k in int, for 0 <= k < 2^16.
AddInt32(x, k) ==
    IF x > 2147483647 - k
    THEN ((x - 2147483647 - 1 + k) - 2147483647) - 1
    ELSE x + k

\* a * b in int, for |a| < 2^20 and 0 <= b < 2^15: the low 32 bits of the
\* product, from the 16-bit halves of |a|.
MultiplyInt32(a, b) ==
    LET a1 == Abs(a) \div 65536
        a0 == Abs(a) % 65536
        p0 == a0 * b
        upper == (a1 * b + p0 \div 65536) % 65536
        low == p0 % 65536
        product == IF upper >= 32768 THEN (upper - 65536) * 65536 + low
                   ELSE upper * 65536 + low
    IN  IF a < 0 THEN NegateInt32(product) ELSE product

\* RightShiftWithRoundingSigned on an int value.
RightShiftWithRoundingSignedInt32(value, bits) ==
    IF value >= 0
    THEN ShiftRight(AddInt32(value, ShiftRight(Pow2(bits), 1)), bits)
    ELSE NegateInt32(ShiftRight(AddInt32(NegateInt32(value),
                                         ShiftRight(Pow2(bits), 1)), bits))

\* GetMvProjection storing the rounded product without the clamp.
GetMvProjection_NoClamp(mv, numerator, denominator) ==
    LET num == Clip3(numerator, -kMaxFrameDistance, kMaxFrameDistance)
        proj(c) == Int16(RightShiftWithRoundingSignedInt32(
                     MultiplyInt32(c * num,
                                   kProjectionMvDivisionLookup(denominator)), 14))
    IN  << proj(mv[1]), proj(mv[2]) >>

GetMvProjection(mv, numerator, denominator) ==
    LET num == Clip3(numerator, -kMaxFrameDistance, kMaxFrameDistance)
        proj(c) == Int16(Clip3(
                     RightShiftWithRoundingSignedInt32(
                       MultiplyInt32(c * num,
                                     kProjectionMvDivisionLookup(denominator)), 14),
                     -kProjectionMvClamp, kProjectionMvClamp))
    IN  << proj(mv[1]), proj(mv[2]) >>

(***************************************************************************)
(* 7.10.2.1  SetupGlobalMv.  gm is the GlobalMotion of the block's         *)
(* reference: [type, params], params a function on 0 .. 5.  The block      *)
(* gives row4x4, column4x4 and width, height in pixels.                    *)
(***************************************************************************)
\* SetupGlobalMv without the test for the identity model: the model is
\* evaluated as an affine one.
SetupGlobalMv_IntraOnly(frame_header, reference_type, gm, block) ==
    IF reference_type = kReferenceFrameIntra
    THEN ZeroMv
    ELSE IF gm.type = kGlobalMotionTransformationTypeTranslation
    THEN LowerMvPrecision(frame_header,
           << Int16(ShiftRight(gm.params[0], kWarpedModelPrecisionBits - 3)),
              Int16(ShiftRight(gm.params[1], kWarpedModelPrecisionBits - 3)) >>)
    ELSE LET x == 4 * block.column4x4 + (block.width \div 2) - 1
             y == 4 * block.row4x4 + (block.height \div 2) - 1
             xc == (gm.params[2] - Pow2(kWarpedModelPrecisionBits)) * x
                   + gm.params[3] * y + gm.params[0]
             yc == gm.params[4] * x
                   + (gm.params[5] - Pow2(kWarpedModelPrecisionBits)) * y
                   + gm.params[1]
         IN  IF frame_header.allow_high_precision_mv
             THEN << Int16(RightShiftWithRoundingSigned(
                             yc, kWarpedModelPrecisionBits - 3)),
                     Int16(RightShiftWithRoundingSigned(
                             xc, kWarpedModelPrecisionBits - 3)) >>
             ELSE LowerMvPrecision(frame_header,
                    << Int16(2 * RightShiftWithRoundingSigned(
                                   yc, kWarpedModelPrecisionBits - 2)),
                       Int16(2 * RightShiftWithRoundingSigned(
                                   xc, kWarpedModelPrecisionBits - 2)) >>)

SetupGlobalMv(frame_header, reference_type, gm, block) ==
    IF reference_type = kReferenceFrameIntra
       \/ gm.type = kGlobalMotionTransformationTypeIdentity
    THEN ZeroMv
    ELSE IF gm.type = kGlobalMotionTransformationTypeTranslation
    THEN LowerMvPrecision(frame_header,
           << Int16(ShiftRight(gm.params[0], kWarpedModelPrecisionBits - 3)),
              Int16(ShiftRight(gm.params[1], kWarpedModelPrecisionBits - 3)) >>)
    ELSE LET x == 4 * block.column4x4 + (block.width \div 2) - 1
             y == 4 * block.row4x4 + (block.height \div 2) - 1
             xc == (gm.params[2] - Pow2(kWarpedModelPrecisionBits)) * x
                   + gm.params[3] * y + gm.params[0]
             yc == gm.params[4] * x
                   + (gm.params[5] - Pow2(kWarpedModelPrecisionBits)) * y
                   + gm.params[1]
         IN  IF frame_header.allow_high_precision_mv
             THEN << Int16(RightShiftWithRoundingSigned(
                             yc, kWarpedModelPrecisionBits - 3)),
                     Int16(RightShiftWithRoundingSigned(
                             xc, kWarpedModelPrecisionBits - 3)) >>
             ELSE LowerMvPrecision(frame_header,
                    << Int16(2 * RightShiftWithRoundingSigned(
                                   yc, kWarpedModelPrecisionBits - 2)),
                       Int16(2 * RightShiftWithRoundingSigned(
                                   xc, kWarpedModelPrecisionBits - 2)) >>)

(***************************************************************************)
(* The projected, precision-lowered temporal candidate of                  *)
(* AddTemporalReferenceMvCandidate for one reference direction.            *)
(***************************************************************************)
TemporalCandidate(frame_header, temporal_mv, reference_offset, temporal_reference_offset) ==
    IF reference_offset # 0
    THEN LowerMvPrecision(frame_header,
           GetMvProjection(temporal_mv, reference_offset,
                           temporal_reference_offset))
    ELSE ZeroMv

(***************************************************************************)
(* PredictionParameters::SetWeightIndexStackEntry / IncreaseWeight: an     *)
(* entry of weight_index_stack packs the weight above the low 3 bits,      *)
(* which hold 7 - index.                                                   *)
(***************************************************************************)
WeightIndexEntry(index, weight) == weight * 8 + 7 - index

WeightOf(entry) == ShiftRight(entry, 3)

SetWeightIndexStackEntry(wis, index, weight) ==
    [wis EXCEPT ![index] = WeightIndexEntry(index, weight)]

IncreaseWeight(wis, index, weight) ==
    [wis EXCEPT ![index] = @ + weight * 8]

(***************************************************************************)
(* DescendingOrderTwo and SortWeightIndexStack on a sequence s holding     *)
(* weight_index_stack[0 .. size-1] (s[1] is element 0).                    *)
(***************************************************************************)
DescendingOrderTwo(a, b) == IF a < b THEN <<b, a>> ELSE <<a, b>>

RECURSIVE InsertDescending(_, _)
InsertDescending(x, s) ==
    IF s = <<>> THEN <<x>>
    ELSE IF x > Head(s) THEN <<x>> \o s
    ELSE <<Head(s)>> \o InsertDescending(x, Tail(s))

\* std::sort with CompareCandidateMotionVectors (lhs > rhs).
RECURSIVE StdSortDescending(_)
StdSortDescending(s) ==
    IF s = <<>> THEN <<>>
    ELSE InsertDescending(Head(s), StdSortDescending(Tail(s)))

\* SortWeightIndexStack with the last compare-and-swap of the size 3 path
\* left out.
SortWeightIndexStack_TwoSwaps(size, s) ==
    IF size <= 1 THEN s
    ELSE IF size <= 3
    THEN LET p01 == DescendingOrderTwo(s[1], s[2])
         IN  IF size = 3
             THEN LET p12 == DescendingOrderTwo(p01[2], s[3])
                  IN  << p01[1], p12[1], p12[2] >>
             ELSE << p01[1], p01[2] >>
    ELSE StdSortDescending(s)

SortWeightIndexStack(size, s) ==
    IF size <= 1 THEN s
    ELSE IF size <= 3
    THEN LET p01 == DescendingOrderTwo(s[1], s[2])
         IN  IF size = 3
             THEN LET p12 == DescendingOrderTwo(p01[2], s[3])
                      q01 == DescendingOrderTwo(p01[1], p12[1])
                  IN  << q01[1], q01[2], p12[2] >>
             ELSE << p01[1], p01[2] >>
    ELSE StdSortDescending(s)

\* weight_index_stack[from .. from + size - 1] as the array a sort is given.
SubStack(wis, from, size) == [i \in 1 .. size |-> wis[from + i - 1]]

StoreSubStack(wis, from, sorted) ==
    [i \in DOMAIN wis |->
       IF i >= from /\ i < from + Len(sorted) THEN sorted[i - from + 1]
       ELSE wis[i]]

\* The two sorts with one sort over all num_mv_found entries in their place.
SortNearestThenRest_AsOne(nearest_mv_count, num, wis) ==
    StoreSubStack(wis, 0, SortWeightIndexStack(num, SubStack(wis, 0, num)))

\* FindMvStack, the branch num_mv_found >= 2: the sort of the first
\* nearest_mv_count entries and, if they are fewer than 4, of the rest.
SortNearestThenRest(nearest_mv_count, num, wis) ==
    LET nearest == StoreSubStack(wis, 0,
                     SortWeightIndexStack(nearest_mv_count,
                                          SubStack(wis, 0, nearest_mv_count)))
    IN  IF nearest_mv_count < 4
        THEN StoreSubStack(nearest, nearest_mv_count,
               SortWeightIndexStack(num - nearest_mv_count,
                 SubStack(nearest, nearest_mv_count, num - nearest_mv_count)))
        ELSE nearest

(***************************************************************************)
(* 7.10.2.14 (part 2)  ComputeContexts: <<new_mv, reference_mv>>.          *)
(***************************************************************************)
BoolInt(b) == IF b THEN 1 ELSE 0

\* ComputeContexts with the nearest_matches == 1 case computing
\* reference_mv from nearest_matches instead of total_matches.
ComputeContexts_NearestForTotal(found_new_mv, nearest_matches, total_matches) ==
    CASE nearest_matches = 0 ->
           << Min(total_matches, 1), total_matches >>
      [] nearest_matches = 1 ->
           << 3 - BoolInt(found_new_mv), 2 + nearest_matches >>
      [] OTHER ->
           << 5 - BoolInt(found_new_mv), 5 >>

\* ComputeContexts adding found_new_mv where the code subtracts it.
ComputeContexts_AddsNewMv(found_new_mv, nearest_matches, total_matches) ==
    CASE nearest_matches = 0 ->
           << Min(total_matches, 1), total_matches >>
      [] nearest_matches = 1 ->
           << 3 + BoolInt(found_new_mv), 2 + total_matches >>
      [] OTHER ->
           << 5 + BoolInt(found_new_mv), 5 >>

ComputeContexts(found_new_mv, nearest_matches, total_matches) ==
    CASE nearest_matches = 0 ->
           << Min(total_matches, 1), total_matches >>
      [] nearest_matches = 1 ->
           << 3 - BoolInt(found_new_mv), 2 + total_matches >>
      [] OTHER ->
           << 5 - BoolInt(found_new_mv), 5 >>

(***************************************************************************)
(* Candidate insertion.                                                    *)
(*                                                                         *)
(* ctx = [frame_header, block, global_mv] is what the helpers read of the  *)
(* tile and of the block; s = [ref_mv_stack, compound_ref_mv_stack,        *)
(* weight_index_stack, num_mv_found, found_new_mv, found_match] is what    *)
(* they write through prediction_parameters and their out-parameters.      *)
(* A neighbour mv_bp is [is_inter, reference_frame, mv, is_global_mv_block,*)
(* new_mv, size]: new_mv is kPredictionModeNewMvMask.Contains(y_mode),     *)
(* size is <<width4x4, height4x4>>, reference_frame and mv are pairs       *)
(* (element i of the code is element i+1 of the pair).                     *)
(***************************************************************************)
StackIndices == 0 .. kMaxRefMvStackSize - 1

IsGlobalMvBlock(is_global_mv_block, type) ==
    is_global_mv_block /\ type > kGlobalMotionTransformationTypeTranslation

\* std::find_if over stack[0 .. num-1]: the first index holding value, or
\* num when there is none.
FindIf(stack, num, value) ==
    IF \E i \in 0 .. num - 1 : stack[i] = value
    THEN CHOOSE i \in 0 .. num - 1 :
           /\ stack[i] = value
           /\ \A j \in 0 .. i - 1 : stack[j] # value
    ELSE num

\* The candidate taken from the neighbour whatever its mode.
SearchStackCandidate_StoredMv(ctx, mv_bp, index) ==
    mv_bp.mv[index + 1]

SearchStackCandidate(ctx, mv_bp, index) ==
    LET type == ctx.frame_header.global_motion[ctx.block.reference_frame[1]].type
    IN  IF IsGlobalMvBlock(mv_bp.is_global_mv_block, type)
        THEN ctx.global_mv[1]
        ELSE mv_bp.mv[index + 1]

\* SearchStack with the search for an equal entry stopping one entry short.
SearchStack_ShortFind(ctx, mv_bp, index, weight, s) ==
    LET candidate_mv == SearchStackCandidate(ctx, mv_bp, index)
        s1 == [s EXCEPT !.found_new_mv = @ \/ mv_bp.new_mv, !.found_match = TRUE]
        num == s.num_mv_found
        result == FindIf(s.ref_mv_stack, num - 1, candidate_mv)
    IN  IF num > 0 /\ result # num - 1
        THEN [s1 EXCEPT !.weight_index_stack = IncreaseWeight(@, result, weight)]
        ELSE IF num >= kMaxRefMvStackSize THEN s1
        ELSE [s1 EXCEPT !.ref_mv_stack[num] = candidate_mv,
                        !.weight_index_stack = SetWeightIndexStackEntry(@, num, weight),
                        !.num_mv_found = num + 1]

\* SearchStack storing a new candidate over the last entry of a full stack.
SearchStack_OverwriteLast(ctx, mv_bp, index, weight, s) ==
    LET candidate_mv == SearchStackCandidate(ctx, mv_bp, index)
        s1 == [s EXCEPT !.found_new_mv = @ \/ mv_bp.new_mv, !.found_match = TRUE]
        num == s.num_mv_found
        result == FindIf(s.ref_mv_stack, num, candidate_mv)
    IN  IF result # num
        THEN [s1 EXCEPT !.weight_index_stack = IncreaseWeight(@, result, weight)]
        ELSE IF num >= kMaxRefMvStackSize
        THEN [s1 EXCEPT !.ref_mv_stack[kMaxRefMvStackSize - 1] = candidate_mv]
        ELSE [s1 EXCEPT !.ref_mv_stack[num] = candidate_mv,
                        !.weight_index_stack = SetWeightIndexStackEntry(@, num, weight),
                        !.num_mv_found = num + 1]

\* SearchStack that leaves found_new_mv as it was.
SearchStack_KeepsNewMv(ctx, mv_bp, index, weight, s) ==
    LET candidate_mv == SearchStackCandidate(ctx, mv_bp, index)
        s1 == [s EXCEPT !.found_match = TRUE]
        num == s.num_mv_found
        result == FindIf(s.ref_mv_stack, num, candidate_mv)
    IN  IF result # num
        THEN [s1 EXCEPT !.weight_index_stack = IncreaseWeight(@, result, weight)]
        ELSE IF num >= kMaxRefMvStackSize THEN s1
        ELSE [s1 EXCEPT !.ref_mv_stack[num] = candidate_mv,
                        !.weight_index_stack = SetWeightIndexStackEntry(@, num, weight),
                        !.num_mv_found = num + 1]

\* 7.10.2.8.
SearchStack(ctx, mv_bp, index, weight, s) ==
    LET candidate_mv == SearchStackCandidate(ctx, mv_bp, index)
        s1 == [s EXCEPT !.found_new_mv = @ \/ mv_bp.new_mv, !.found_match = TRUE]
        num == s.num_mv_found
        result == FindIf(s.ref_mv_stack, num, candidate_mv)
    IN  IF result # num
        THEN [s1 EXCEPT !.weight_index_stack = IncreaseWeight(@, result, weight)]
        ELSE IF num >= kMaxRefMvStackSize THEN s1
        ELSE [s1 EXCEPT !.ref_mv_stack[num] = candidate_mv,
                        !.weight_index_stack = SetWeightIndexStackEntry(@, num, weight),
                        !.num_mv_found = num + 1]

CompoundSearchStackCandidate(ctx, mv_bp) ==
    LET type(i) == ctx.frame_header.global_motion[ctx.block.reference_frame[i]].type
        cand(i) == IF IsGlobalMvBlock(mv_bp.is_global_mv_block, type(i))
                   THEN ctx.global_mv[i]
                   ELSE mv_bp.mv[i]
    IN  << cand(1), cand(2) >>

\* 7.10.2.9.
CompoundSearchStack(ctx, mv_bp, weight, s) ==
    LET candidate_mv == CompoundSearchStackCandidate(ctx, mv_bp)
        s1 == [s EXCEPT !.found_new_mv = @ \/ mv_bp.new_mv, !.found_match = TRUE]
        num == s.num_mv_found
        result == FindIf(s.compound_ref_mv_stack, num, candidate_mv)
    IN  IF result # num
        THEN [s1 EXCEPT !.weight_index_stack = IncreaseWeight(@, result, weight)]
        ELSE IF num >= kMaxRefMvStackSize THEN s1
        ELSE [s1 EXCEPT !.compound_ref_mv_stack[num] = candidate_mv,
                        !.weight_index_stack = SetWeightIndexStackEntry(@, num, weight),
                        !.num_mv_found = num + 1]

\* AddReferenceMvCandidate comparing the first reference frame only in
\* compound mode.
AddReferenceMvCandidate_FirstReferenceOnly(ctx, mv_bp, is_compound, weight, s) ==
    IF ~mv_bp.is_inter THEN s
    ELSE IF is_compound
    THEN IF mv_bp.reference_frame[1] = ctx.block.reference_frame[1]
         THEN CompoundSearchStack(ctx, mv_bp, weight, s)
         ELSE s
    ELSE LET s0 == IF mv_bp.reference_frame[1] = ctx.block.reference_frame[1]
                   THEN SearchStack(ctx, mv_bp, 0, weight, s)
                   ELSE s
         IN  IF mv_bp.reference_frame[2] = ctx.block.reference_frame[1]
             THEN SearchStack(ctx, mv_bp, 1, weight, s0)
             ELSE s0

\* 7.10.2.7.
AddReferenceMvCandidate(ctx, mv_bp, is_compound, weight, s) ==
    IF ~mv_bp.is_inter THEN s
    ELSE IF is_compound
    THEN IF /\ mv_bp.reference_frame[1] = ctx.block.reference_frame[1]
            /\ mv_bp.reference_frame[2] = ctx.block.reference_frame[2]
         THEN CompoundSearchStack(ctx, mv_bp, weight, s)
         ELSE s
    ELSE LET s0 == IF mv_bp.reference_frame[1] = ctx.block.reference_frame[1]
                   THEN SearchStack(ctx, mv_bp, 0, weight, s)
                   ELSE s
         IN  IF mv_bp.reference_frame[2] = ctx.block.reference_frame[1]
             THEN SearchStack(ctx, mv_bp, 1, weight, s0)
             ELSE s0

(***************************************************************************)
(* 7.10.2.6  One iteration of the loops of AddTemporalReferenceMvCandidate *)
(* for the sample (temporal_mv, temporal_reference_offset).  t is          *)
(* [ref_mv_stack, compound_ref_mv_stack, weight_index_stack, num_mv_found, *)
(* zero_mv_context].                                                       *)
(***************************************************************************)
MaxDifference(candidate_mv, global_mv) ==
    Max(Abs(candidate_mv[1] - global_mv[1]), Abs(candidate_mv[2] - global_mv[2]))

AddTemporalSingle(ctx, reference_offsets, temporal_mv, temporal_reference_offset, t) ==
    LET candidate_mv == TemporalCandidate(ctx.frame_header, temporal_mv,
                          reference_offsets[1], temporal_reference_offset)
        t1 == IF t.zero_mv_context = -1
              THEN [t EXCEPT !.zero_mv_context =
                      BoolInt(MaxDifference(candidate_mv, ctx.global_mv[1]) >= 16)]
              ELSE t
        num == t.num_mv_found
        result == FindIf(t.ref_mv_stack, num, candidate_mv)
    IN  IF result # num
        THEN [t1 EXCEPT !.weight_index_stack = IncreaseWeight(@, result, 2)]
        ELSE IF num >= kMaxRefMvStackSize THEN t1
        ELSE [t1 EXCEPT !.ref_mv_stack[num] = candidate_mv,
                        !.weight_index_stack = SetWeightIndexStackEntry(@, num, 2),
                        !.num_mv_found = num + 1]

AddTemporalCompound(ctx, reference_offsets, temporal_mv, temporal_reference_offset, t) ==
    LET cand(i) == TemporalCandidate(ctx.frame_header, temporal_mv,
                     reference_offsets[i], temporal_reference_offset)
        candidate_mv == << cand(1), cand(2) >>
        max_difference == Max(MaxDifference(cand(1), ctx.global_mv[1]),
                              MaxDifference(cand(2), ctx.global_mv[2]))
        t1 == IF t.zero_mv_context = -1
              THEN [t EXCEPT !.zero_mv_context = BoolInt(max_difference >= 16)]
              ELSE t
        num == t.num_mv_found
        result == FindIf(t.compound_ref_mv_stack, num, candidate_mv)
    IN  IF result # num
        THEN [t1 EXCEPT !.weight_index_stack = IncreaseWeight(@, result, 2)]
        ELSE IF num >= kMaxRefMvStackSize THEN t1
        ELSE [t1 EXCEPT !.compound_ref_mv_stack[num] = candidate_mv,
                        !.weight_index_stack = SetWeightIndexStackEntry(@, num, 2),
                        !.num_mv_found = num + 1]

\* The iteration of AddTemporalReferenceMvCandidate that decides the
\* zero-MV context again whatever it holds.
AddTemporalSample_DecidesAgain(ctx, reference_offsets, temporal_mv, temporal_reference_offset, t) ==
    IF ctx.block.is_compound
    THEN AddTemporalCompound(ctx, reference_offsets, temporal_mv,
                             temporal_reference_offset,
                             [t EXCEPT !.zero_mv_context = -1])
    ELSE AddTemporalSingle(ctx, reference_offsets, temporal_mv,
                           temporal_reference_offset,
                           [t EXCEPT !.zero_mv_context = -1])

AddTemporalSample(ctx, reference_offsets, temporal_mv, temporal_reference_offset, t) ==
    IF ctx.block.is_compound
    THEN AddTemporalCompound(ctx, reference_offsets, temporal_mv,
                             temporal_reference_offset, t)
    ELSE AddTemporalSingle(ctx, reference_offsets, temporal_mv,
                           temporal_reference_offset, t)

(***************************************************************************)
(* The availability predicates of Tile, for the tile that covers the       *)
(* frame: it starts at row 0, column 0 and ends at rows4x4, columns4x4.    *)
(***************************************************************************)
IsTopInside(row4x4) == row4x4 > 0

IsLeftInside(column4x4) == column4x4 > 0

IsTopLeftInside(row4x4, column4x4) == row4x4 - 1 >= 0 /\ column4x4 - 1 >= 0

IsBottomRightInside(frame_header, row4x4, column4x4) ==
    row4x4 < frame_header.rows4x4 /\ column4x4 < frame_header.columns4x4

IsInside(frame_header, row4x4, column4x4) ==
    /\ row4x4 >= 0 /\ row4x4 < frame_header.rows4x4
    /\ column4x4 >= 0 /\ column4x4 < frame_header.columns4x4

(***************************************************************************)
(* 7.10.2.2 - 7.10.2.4  The spatial scans.  s is [ref_mv_stack,            *)
(* compound_ref_mv_stack, weight_index_stack, num_mv_found, found_new_mv,  *)
(* found_match]; bps[k] is the block k units behind the position the scan  *)
(* starts at, (mv_row, mv_column) in the source.                           *)
(***************************************************************************)
\* GetMinimumStep without the step of the further rows and columns.
GetMinimumStep_NearestOnly(block_width_or_height4x4, delta_row_or_column) ==
    IF block_width_or_height4x4 >= 16 THEN 4 ELSE 0

GetMinimumStep(block_width_or_height4x4, delta_row_or_column) ==
    IF block_width_or_height4x4 >= 16 THEN 4
    ELSE IF delta_row_or_column < -1 THEN 2
    ELSE 0

\* The do-while loop of ScanRow (dim = 1, the neighbour's width counts) and
\* of ScanColumn (dim = 2, its height).
RECURSIVE ScanLoop(_, _, _, _, _, _, _, _)
ScanLoop(ctx, bps, offset, end_bps, extent4x4, min_step, dim, s) ==
    LET mv_bp == bps[offset]
        step == Max(Min(extent4x4, mv_bp.size[dim]), min_step)
        s1 == AddReferenceMvCandidate(ctx, mv_bp, ctx.block.is_compound,
                                      2 * step, s)
    IN  IF offset + step < end_bps
        THEN ScanLoop(ctx, bps, offset + step, end_bps, extent4x4, min_step, dim, s1)
        ELSE s1

ScanRow(ctx, bps, delta_row, s) ==
    LET mv_row == ctx.block.row4x4 + delta_row
        width4x4 == ctx.block.width4x4
    IN  IF ~IsTopInside(mv_row + 1) THEN s
        ELSE ScanLoop(ctx, bps, 0,
                      Min(Min(width4x4,
                              ctx.frame_header.columns4x4 - ctx.block.column4x4), 16),
                      width4x4, GetMinimumStep(width4x4, delta_row), 1, s)

ScanColumn(ctx, bps, delta_column, s) ==
    LET mv_column == ctx.block.column4x4 + delta_column
        height4x4 == ctx.block.height4x4
    IN  IF ~IsLeftInside(mv_column + 1) THEN s
        ELSE ScanLoop(ctx, bps, 0,
                      Min(Min(height4x4,
                              ctx.frame_header.rows4x4 - ctx.block.row4x4), 16),
                      height4x4, GetMinimumStep(height4x4, delta_column), 2, s)

\* has_parameters is Tile::HasParameters(mv_row, mv_column), mv_bp the
\* block there.
ScanPoint(ctx, delta_row, delta_column, has_parameters, mv_bp, s) ==
    LET mv_row == ctx.block.row4x4 + delta_row
        mv_column == ctx.block.column4x4 + delta_column
    IN  IF ~IsInside(ctx.frame_header, mv_row, mv_column) \/ ~has_parameters
        THEN s
        ELSE IF mv_bp.reference_frame[1] = kReferenceFrameNone THEN s
        ELSE AddReferenceMvCandidate(ctx, mv_bp, ctx.block.is_compound, 4, s)

(***************************************************************************)
(* 7.10.2.5  TemporalScan.  motion_field[<<row8x8, column8x8>>] is the     *)
(* stored sample [mv, reference_offset] of an 8x8 cell; the offsets the    *)
(* source computes address the cell (mv_row >> 1, mv_column >> 1).  t is   *)
(* [ref_mv_stack, compound_ref_mv_stack, weight_index_stack, num_mv_found, *)
(* zero_mv_context].                                                       *)
(***************************************************************************)
IsWithinTheSame64x64Block(block, delta_row, delta_column) ==
    LET row == (block.row4x4 % 16) + delta_row
        column == (block.column4x4 % 16) + delta_column
    IN  row < 16 /\ column >= 0 /\ column < 16

\* kTemporalScanMask.Contains(block.size): the sizes 8, 16 and 32 pixels.
kTemporalScanMask(block) ==
    block.width4x4 \in {2, 4, 8} /\ block.height4x4 \in {2, 4, 8}

\* x | 1
OrOne(x) == x + 1 - (x % 2)

\* The grid with a step of 2 whatever the size of the block.
TemporalGrid_StepTwo(block) ==
    LET rows == (Min(block.height4x4, 16) + 1) \div 2
        columns == (Min(block.width4x4, 16) + 1) \div 2
    IN  [n \in 1 .. rows * columns |->
           << OrOne(block.row4x4) + ((n - 1) \div columns) * 2,
              OrOne(block.column4x4) + ((n - 1) % columns) * 2 >>]

\* The positions of the two nested loops, in the order they are visited.
TemporalGrid(block) ==
    LET step_w == IF block.width4x4 >= 16 THEN 4 ELSE 2
        step_h == IF block.height4x4 >= 16 THEN 4 ELSE 2
        rows == (Min(block.height4x4, 16) + step_h - 1) \div step_h
        columns == (Min(block.width4x4, 16) + step_w - 1) \div step_w
    IN  [n \in 1 .. rows * columns |->
           << OrOne(block.row4x4) + ((n - 1) \div columns) * step_h,
              OrOne(block.column4x4) + ((n - 1) % columns) * step_w >>]

\* temporal_sample_positions
TemporalSamplePositions(block) ==
    IF kTemporalScanMask(block)
    THEN << << block.height4x4, -2 >>,
            << block.height4x4, block.width4x4 >>,
            << block.height4x4 - 2, block.width4x4 >> >>
    ELSE << >>

ReferenceOffsetsOf(ctx) ==
    << ctx.frame_header.relative_distance[ctx.block.reference_frame[1]],
       IF ctx.block.is_compound
       THEN ctx.frame_header.relative_distance[ctx.block.reference_frame[2]]
       ELSE 0 >>

\* The do-while loops of AddTemporalReferenceMvCandidate from index on.
RECURSIVE AddTemporalReferenceMvCandidate(_, _, _, _, _)
AddTemporalReferenceMvCandidate(ctx, reference_offsets, samples, index, t) ==
    LET t1 == AddTemporalSample(ctx, reference_offsets, samples[index].mv,
                                samples[index].reference_offset, t)
    IN  IF index + 1 <= Len(samples)
        THEN AddTemporalReferenceMvCandidate(ctx, reference_offsets, samples,
                                             index + 1, t1)
        ELSE t1

\* TemporalScan never writing 1 for a first position without a sample.
TemporalScan_NoUnavailableSignal(ctx, motion_field, t) ==
    LET block == ctx.block
        grid == TemporalGrid(block)
        Sample(p) == motion_field[<< p[1] \div 2, p[2] \div 2 >>]
        Valid(p) == /\ IsBottomRightInside(ctx.frame_header, p[1], p[2])
                    /\ Sample(p).mv[1] # kInvalidMvValue
        Position(q) == << OrOne(block.row4x4) + q[1], OrOne(block.column4x4) + q[2] >>
        ExtraValid(q) == /\ IsWithinTheSame64x64Block(block, q[1], q[2])
                         /\ Valid(Position(q))
        extra == SelectSeq(TemporalSamplePositions(block), ExtraValid)
        valid == SelectSeq(grid, Valid)
        samples == [n \in 1 .. Len(valid) + Len(extra) |->
                      IF n <= Len(valid) THEN Sample(valid[n])
                      ELSE Sample(Position(extra[n - Len(valid)]))]
    IN  IF Len(samples) # 0
        THEN AddTemporalReferenceMvCandidate(ctx, ReferenceOffsetsOf(ctx),
                                             samples, 1, t)
        ELSE t

TemporalScan(ctx, motion_field, t) ==
    LET block == ctx.block
        grid == TemporalGrid(block)
        Sample(p) == motion_field[<< p[1] \div 2, p[2] \div 2 >>]
        Valid(p) == /\ IsBottomRightInside(ctx.frame_header, p[1], p[2])
                    /\ Sample(p).mv[1] # kInvalidMvValue
        Position(q) == << OrOne(block.row4x4) + q[1], OrOne(block.column4x4) + q[2] >>
        ExtraValid(q) == /\ IsWithinTheSame64x64Block(block, q[1], q[2])
                         /\ Valid(Position(q))
        extra == SelectSeq(TemporalSamplePositions(block), ExtraValid)
        valid == SelectSeq(grid, Valid)
        samples == [n \in 1 .. Len(valid) + Len(extra) |->
                      IF n <= Len(valid) THEN Sample(valid[n])
                      ELSE Sample(Position(extra[n - Len(valid)]))]
        t1 == IF /\ IsBottomRightInside(ctx.frame_header, grid[1][1], grid[1][2])
                 /\ ~Valid(grid[1])
              THEN [t EXCEPT !.zero_mv_context = 1]
              ELSE t
    IN  IF Len(samples) # 0
        THEN AddTemporalReferenceMvCandidate(ctx, ReferenceOffsetsOf(ctx),
                                             samples, 1, t1)
        ELSE t1

(***************************************************************************)
(* The steps of TemporalScan: one iteration of the nested loops over the   *)
(* grid, one iteration of the loop over temporal_sample_positions.  Each   *)
(* yields the zero-MV context and the sample collected, if any.            *)
(***************************************************************************)
\* The grid iteration writing 1 for every position without a vector.
VisitGridPosition_AnyPosition(fh, field, position, is_first, zero_mv_context) ==
    IF ~IsBottomRightInside(fh, position[1], position[2])
    THEN [zero_mv_context |-> zero_mv_context, collected |-> << >>]
    ELSE LET sample == field[<< position[1] \div 2, position[2] \div 2 >>]
         IN  IF sample.mv[1] = kInvalidMvValue
             THEN [zero_mv_context |-> 1, collected |-> << >>]
             ELSE [zero_mv_context |-> zero_mv_context,
                   collected |-> << sample >>]

VisitGridPosition(fh, field, position, is_first, zero_mv_context) ==
    IF ~IsBottomRightInside(fh, position[1], position[2])
    THEN [zero_mv_context |-> zero_mv_context, collected |-> << >>]
    ELSE LET sample == field[<< position[1] \div 2, position[2] \div 2 >>]
         IN  IF sample.mv[1] = kInvalidMvValue
             THEN [zero_mv_context |-> IF is_first THEN 1 ELSE zero_mv_context,
                   collected |-> << >>]
             ELSE [zero_mv_context |-> zero_mv_context,
                   collected |-> << sample >>]

VisitSamplePosition(fh, blk, field, q) ==
    LET mv_row == OrOne(blk.row4x4) + q[1]
        mv_column == OrOne(blk.column4x4) + q[2]
    IN  IF ~IsWithinTheSame64x64Block(blk, q[1], q[2]) THEN << >>
        ELSE IF ~IsBottomRightInside(fh, mv_row, mv_column) THEN << >>
        ELSE IF field[<< mv_row \div 2, mv_column \div 2 >>].mv[1]
                  = kInvalidMvValue
        THEN << >>
        ELSE << field[<< mv_row \div 2, mv_column \div 2 >>] >>

(***************************************************************************)
(* 7.10.2.12, 7.10.2.13  ExtraSearch.  e is [ref_id_count, ref_id,         *)
(* ref_diff_count, ref_diff], the arrays indexed from 0 as in the source;  *)
(* above[i] and left[i] are tile.Parameters(row4x4 - 1, column4x4 + i) and *)
(* tile.Parameters(row4x4 + i, column4x4 - 1).                             *)
(***************************************************************************)
SignAdjusted(ctx, candidate_reference_frame, block_reference_frame, mv) ==
    IF ctx.frame_header.reference_frame_sign_bias[candidate_reference_frame]
         # ctx.frame_header.reference_frame_sign_bias[block_reference_frame]
    THEN NegateMv(mv)
    ELSE mv

\* The body of the loop over j storing the vector as it is.
AddExtraCompoundMv_NoSignAdjust(ctx, bp, i, j, e) ==
    LET candidate_reference_frame == bp.reference_frame[i + 1]
        block_reference_frame == ctx.block.reference_frame[j + 1]
    IN  IF /\ candidate_reference_frame = block_reference_frame
           /\ e.ref_id_count[j] < 2
        THEN [e EXCEPT !.ref_id[j][e.ref_id_count[j]] = bp.mv[i + 1],
                       !.ref_id_count[j] = @ + 1]
        ELSE IF e.ref_diff_count[j] < 2
        THEN [e EXCEPT !.ref_diff[j][e.ref_diff_count[j]] = bp.mv[i + 1],
                       !.ref_diff_count[j] = @ + 1]
        ELSE e

\* The body of the loop over j counting a same-reference vector whether or
\* not ref_id has room for it.
AddExtraCompoundMv_NoCountGuard(ctx, bp, i, j, e) ==
    LET candidate_reference_frame == bp.reference_frame[i + 1]
        block_reference_frame == ctx.block.reference_frame[j + 1]
    IN  IF candidate_reference_frame = block_reference_frame
        THEN [e EXCEPT !.ref_id[j] =
                          IF e.ref_id_count[j] < 2
                          THEN [@ EXCEPT ![e.ref_id_count[j]] = bp.mv[i + 1]]
                          ELSE @,
                       !.ref_id_count[j] = @ + 1]
        ELSE IF e.ref_diff_count[j] < 2
        THEN [e EXCEPT !.ref_diff[j][e.ref_diff_count[j]] =
                          SignAdjusted(ctx, candidate_reference_frame,
                                       block_reference_frame, bp.mv[i + 1]),
                       !.ref_diff_count[j] = @ + 1]
        ELSE e

\* The body of the loop over j of AddExtraCompoundMvCandidate.
AddExtraCompoundMv(ctx, bp, i, j, e) ==
    LET candidate_reference_frame == bp.reference_frame[i + 1]
        block_reference_frame == ctx.block.reference_frame[j + 1]
    IN  IF /\ candidate_reference_frame = block_reference_frame
           /\ e.ref_id_count[j] < 2
        THEN [e EXCEPT !.ref_id[j][e.ref_id_count[j]] = bp.mv[i + 1],
                       !.ref_id_count[j] = @ + 1]
        ELSE IF e.ref_diff_count[j] < 2
        THEN [e EXCEPT !.ref_diff[j][e.ref_diff_count[j]] =
                          SignAdjusted(ctx, candidate_reference_frame,
                                       block_reference_frame, bp.mv[i + 1]),
                       !.ref_diff_count[j] = @ + 1]
        ELSE e

AddExtraCompoundMvCandidate(ctx, bp, e) ==
    LET Reference(i, x) ==
          IF bp.reference_frame[i + 1] <= kReferenceFrameIntra THEN x
          ELSE AddExtraCompoundMv(ctx, bp, i, 1, AddExtraCompoundMv(ctx, bp, i, 0, x))
    IN  Reference(1, Reference(0, e))

\* The loop body appending a vector the stack holds already.
AddExtraSingleMv_NoCompare(ctx, bp, i, s) ==
    LET candidate_reference_frame == bp.reference_frame[i + 1]
        candidate_mv == SignAdjusted(ctx, candidate_reference_frame,
                                     ctx.block.reference_frame[1], bp.mv[i + 1])
        num == s.num_mv_found
    IN  IF candidate_reference_frame <= kReferenceFrameIntra THEN s
        ELSE [s EXCEPT !.ref_mv_stack[num] = candidate_mv,
                       !.weight_index_stack = SetWeightIndexStackEntry(@, num, 0),
                       !.num_mv_found = num + 1]

\* The body of the loop over i of AddExtraSingleMvCandidate.
AddExtraSingleMv(ctx, bp, i, s) ==
    LET candidate_reference_frame == bp.reference_frame[i + 1]
        candidate_mv == SignAdjusted(ctx, candidate_reference_frame,
                                     ctx.block.reference_frame[1], bp.mv[i + 1])
        num == s.num_mv_found
    IN  IF candidate_reference_frame <= kReferenceFrameIntra THEN s
        ELSE IF \/ num # 0 /\ s.ref_mv_stack[0] = candidate_mv
                \/ num = 2 /\ s.ref_mv_stack[1] = candidate_mv
        THEN s
        ELSE [s EXCEPT !.ref_mv_stack[num] = candidate_mv,
                       !.weight_index_stack = SetWeightIndexStackEntry(@, num, 0),
                       !.num_mv_found = num + 1]

AddExtraSingleMvCandidate(ctx, bp, s) ==
    AddExtraSingleMv(ctx, bp, 1, AddExtraSingleMv(ctx, bp, 0, s))

\* The loop over i of one pass; x is [s, e].
RECURSIVE ExtraSearchPass(_, _, _, _, _, _)
ExtraSearchPass(ctx, cells, pass, i, num4x4, x) ==
    IF i >= num4x4 THEN x
    ELSE LET mv_row == ctx.block.row4x4 + (IF pass = 0 THEN -1 ELSE i)
             mv_column == ctx.block.column4x4 + (IF pass = 0 THEN i ELSE -1)
             bp == cells[i]
             x1 == IF ctx.block.is_compound
                   THEN [x EXCEPT !.e = AddExtraCompoundMvCandidate(ctx, bp, @)]
                   ELSE [x EXCEPT !.s = AddExtraSingleMvCandidate(ctx, bp, @)]
         IN  IF ~IsTopLeftInside(mv_row + 1, mv_column + 1) THEN x
             ELSE IF ~ctx.block.is_compound /\ x1.s.num_mv_found >= 2 THEN x1
             ELSE ExtraSearchPass(ctx, cells, pass,
                                  i + bp.size[IF pass = 0 THEN 1 ELSE 2],
                                  num4x4, x1)

\* combined_mvs[count].mv[i] for count = 0, 1: the same-reference vectors,
\* then the other ones, then the global vector.
CombinedMvs(ctx, e, i) ==
    LET ids == [k \in 1 .. e.ref_id_count[i] |-> e.ref_id[i][k - 1]]
        diffs == [k \in 1 .. e.ref_diff_count[i] |-> e.ref_diff[i][k - 1]]
    IN  SubSeq(ids \o diffs \o << ctx.global_mv[i + 1], ctx.global_mv[i + 1] >>, 1, 2)

\* The merge leaving num_mv_found at 1 when the scans found one candidate.
ExtraSearchCompoundMerge_KeepsCount(ctx, e, s) ==
    LET combined_mvs == [count \in 0 .. 1 |->
                           << CombinedMvs(ctx, e, 0)[count + 1],
                              CombinedMvs(ctx, e, 1)[count + 1] >>]
    IN  IF s.num_mv_found = 1
        THEN [s EXCEPT !.compound_ref_mv_stack[1] =
                          IF combined_mvs[0] = s.compound_ref_mv_stack[0]
                          THEN combined_mvs[1] ELSE combined_mvs[0],
                       !.weight_index_stack = SetWeightIndexStackEntry(@, 1, 0)]
        ELSE [s EXCEPT !.compound_ref_mv_stack[0] = combined_mvs[0],
                       !.compound_ref_mv_stack[1] = combined_mvs[1],
                       !.weight_index_stack =
                          SetWeightIndexStackEntry(
                            SetWeightIndexStackEntry(@, 0, 0), 1, 0),
                       !.num_mv_found = 2]

\* "Merge compound mode extra search into mv stack."
ExtraSearchCompoundMerge(ctx, e, s) ==
    LET combined_mvs == [count \in 0 .. 1 |->
                           << CombinedMvs(ctx, e, 0)[count + 1],
                              CombinedMvs(ctx, e, 1)[count + 1] >>]
    IN  IF s.num_mv_found = 1
        THEN [s EXCEPT !.compound_ref_mv_stack[1] =
                          IF combined_mvs[0] = s.compound_ref_mv_stack[0]
                          THEN combined_mvs[1] ELSE combined_mvs[0],
                       !.weight_index_stack = SetWeightIndexStackEntry(@, 1, 0),
                       !.num_mv_found = 2]
        ELSE [s EXCEPT !.compound_ref_mv_stack[0] = combined_mvs[0],
                       !.compound_ref_mv_stack[1] = combined_mvs[1],
                       !.weight_index_stack =
                          SetWeightIndexStackEntry(
                            SetWeightIndexStackEntry(@, 0, 0), 1, 0),
                       !.num_mv_found = 2]

\* The fill counting the entries it writes.
ExtraSearchSingleFill_CountsFill(ctx, s) ==
    [s EXCEPT !.ref_mv_stack =
                 [k \in StackIndices |->
                    IF k >= s.num_mv_found /\ k < 2 THEN ctx.global_mv[1] ELSE @[k]],
              !.weight_index_stack =
                 [k \in StackIndices |->
                    IF k >= s.num_mv_found /\ k < 2 THEN WeightIndexEntry(k, 0)
                    ELSE @[k]],
              !.num_mv_found = Max(@, 2)]

\* "single prediction mode": the entries from num_mv_found to 1 get the
\* global vector and weight 0.
ExtraSearchSingleFill(ctx, s) ==
    [s EXCEPT !.ref_mv_stack =
                 [k \in StackIndices |->
                    IF k >= s.num_mv_found /\ k < 2 THEN ctx.global_mv[1] ELSE @[k]],
              !.weight_index_stack =
                 [k \in StackIndices |->
                    IF k >= s.num_mv_found /\ k < 2 THEN WeightIndexEntry(k, 0)
                    ELSE @[k]]]

ExtraSearch(ctx, above, left, s) ==
    LET zero2 == [j \in 0 .. 1 |-> 0]
        x0 == [s |-> s,
               e |-> [ref_id_count |-> zero2, ref_diff_count |-> zero2,
                      ref_id |-> [j \in 0 .. 1 |-> [k \in 0 .. 1 |-> ZeroMv]],
                      ref_diff |-> [j \in 0 .. 1 |-> [k \in 0 .. 1 |-> ZeroMv]]]]
        num4x4 == Min(Min(Min(ctx.block.width4x4,
                              ctx.frame_header.columns4x4 - ctx.block.column4x4),
                          Min(ctx.block.height4x4,
                              ctx.frame_header.rows4x4 - ctx.block.row4x4)), 16)
        x1 == IF s.num_mv_found < 2
              THEN ExtraSearchPass(ctx, above, 0, 0, num4x4, x0) ELSE x0
        x2 == IF x1.s.num_mv_found < 2
              THEN ExtraSearchPass(ctx, left, 1, 0, num4x4, x1) ELSE x1
    IN  IF ctx.block.is_compound
        THEN ExtraSearchCompoundMerge(ctx, x2.e, x2.s)
        ELSE ExtraSearchSingleFill(ctx, x2.s)

(***************************************************************************)
(* 7.9.2  The motion field projection.  A field is a function from         *)
(* <<row8x8, column8x8>>; the source frame gives, for each cell, the       *)
(* reference type and the vector it stored.  k is one call of the kernel:  *)
(* [source, reference_offsets, reference_to_current_with_sign, dst_sign,   *)
(* y8_start, y8_end, x8_start, x8_end, stride].                            *)
(***************************************************************************)
kProjectionMvMaxHorizontalOffset == 8

kFrameKey == 0
kFrameInter == 1
kFrameIntraOnly == 2

IsIntraFrame(frame_type) == frame_type \in {kFrameKey, kFrameIntraOnly}

\* a / b in int: the quotient truncated toward zero.
TruncatingDivide(a, b) == IF a < 0 THEN -((-a) \div b) ELSE a \div b

Project(value, delta, dst_sign) ==
    value + ApplySign(TruncatingDivide(delta, 64), dst_sign)

\* x & ~7
FloorToMultipleOf8(x) == x - (x % 8)

\* skip_references without the test against kMaxFrameDistance.
SkipReference_NoUpperBound(reference_offsets, reference_type) ==
    \/ reference_type = kReferenceFrameIntra
    \/ reference_offsets[reference_type] <= 0

\* CalculateReferenceFramesInfo: skip_references[reference_type].
SkipReference(reference_offsets, reference_type) ==
    \/ reference_type = kReferenceFrameIntra
    \/ reference_offsets[reference_type] > kMaxFrameDistance
    \/ reference_offsets[reference_type] <= 0

AdjustedX8Start(k) == Max(k.x8_start - kProjectionMvMaxHorizontalOffset, 0)

AdjustedX8End(k) == Min(k.x8_end + kProjectionMvMaxHorizontalOffset, k.stride)

\* KernelCell without the test of position_y8 against y8_ceiling.
KernelCell_NoRowCeiling(k, y8, x8) ==
    LET source_reference_type == k.source.reference_frame[<< y8, x8 >>]
        mv == k.source.mv[<< y8, x8 >>]
        projection_mv == GetMvProjection(mv, k.reference_to_current_with_sign,
                           k.reference_offsets[source_reference_type])
        y8_floor == FloorToMultipleOf8(y8) - y8
        y8_ceiling == Min(k.y8_end - y8, y8_floor + 8)
        position_y8 == Project(0, projection_mv[1], k.dst_sign)
        x8_base == FloorToMultipleOf8(x8)
        x8_floor == Max(k.x8_start, x8_base - kProjectionMvMaxHorizontalOffset)
        x8_ceiling == Min(k.x8_end, x8_base + 8 + kProjectionMvMaxHorizontalOffset)
        position_x8 == Project(x8, projection_mv[2], k.dst_sign)
    IN  IF SkipReference(k.reference_offsets, source_reference_type) THEN {}
        ELSE IF position_y8 < y8_floor THEN {}
        ELSE IF position_x8 < x8_floor \/ position_x8 >= x8_ceiling THEN {}
        ELSE { [cell |-> << y8 + position_y8, position_x8 >>,
                sample |-> [mv |-> mv,
                            reference_offset |->
                              k.reference_offsets[source_reference_type]]] }

\* The stores of one iteration of the inner loop, at source cell (y8, x8):
\* no store, or the cell stored to and the sample stored.
KernelCell(k, y8, x8) ==
    LET source_reference_type == k.source.reference_frame[<< y8, x8 >>]
        mv == k.source.mv[<< y8, x8 >>]
        projection_mv == GetMvProjection(mv, k.reference_to_current_with_sign,
                           k.reference_offsets[source_reference_type])
        y8_floor == FloorToMultipleOf8(y8) - y8
        y8_ceiling == Min(k.y8_end - y8, y8_floor + 8)
        position_y8 == Project(0, projection_mv[1], k.dst_sign)
        x8_base == FloorToMultipleOf8(x8)
        x8_floor == Max(k.x8_start, x8_base - kProjectionMvMaxHorizontalOffset)
        x8_ceiling == Min(k.x8_end, x8_base + 8 + kProjectionMvMaxHorizontalOffset)
        position_x8 == Project(x8, projection_mv[2], k.dst_sign)
    IN  IF SkipReference(k.reference_offsets, source_reference_type) THEN {}
        ELSE IF position_y8 < y8_floor \/ position_y8 >= y8_ceiling THEN {}
        ELSE IF position_x8 < x8_floor \/ position_x8 >= x8_ceiling THEN {}
        ELSE { [cell |-> << y8 + position_y8, position_x8 >>,
                sample |-> [mv |-> mv,
                            reference_offset |->
                              k.reference_offsets[source_reference_type]]] }

StoreCells(field, stores) ==
    IF stores = {} THEN field
    ELSE LET w == CHOOSE x \in stores : TRUE
         IN  [field EXCEPT ![w.cell] = w.sample]

\* The n-th source cell of the two nested loops.
KernelPosition(k, n) ==
    LET width == Max(AdjustedX8End(k) - AdjustedX8Start(k), 1)
    IN  << k.y8_start + (n \div width), AdjustedX8Start(k) + (n % width) >>

KernelLength(k) ==
    Max(k.y8_end - k.y8_start, 1)
      * Max(AdjustedX8End(k) - AdjustedX8Start(k), 1)

\* The loops of MotionFieldProjectionKernel_C from the n-th source cell on.
RECURSIVE MotionFieldProjectionKernel_C(_, _, _)
MotionFieldProjectionKernel_C(k, n, field) ==
    IF n >= KernelLength(k) THEN field
    ELSE MotionFieldProjectionKernel_C(k, n + 1,
           StoreCells(field, KernelCell(k, KernelPosition(k, n)[1],
                                        KernelPosition(k, n)[2])))

\* MotionFieldProjection running the kernel for a source frame of any size
\* and type.
MotionFieldProjection_NoSourceCheck(fh, k, field) ==
    IF k.reference_to_current_with_sign > kMaxFrameDistance
    THEN [returned |-> TRUE, kernel |-> FALSE, motion_field |-> field]
    ELSE [returned |-> TRUE, kernel |-> TRUE,
          motion_field |-> MotionFieldProjectionKernel_C(k, 0, field)]

\* MotionFieldProjection returning false for a reference too far away.
MotionFieldProjection_FarIsSkipped(fh, k, field) ==
    IF \/ k.source.rows4x4 # fh.rows4x4
       \/ k.source.columns4x4 # fh.columns4x4
       \/ IsIntraFrame(k.source.frame_type)
       \/ k.reference_to_current_with_sign > kMaxFrameDistance
    THEN [returned |-> FALSE, kernel |-> FALSE, motion_field |-> field]
    ELSE [returned |-> TRUE, kernel |-> TRUE,
          motion_field |-> MotionFieldProjectionKernel_C(k, 0, field)]

\* MotionFieldProjection: [returned, kernel, motion_field], kernel telling
\* whether dsp->motion_field_projection_kernel was called.
MotionFieldProjection(fh, k, field) ==
    IF \/ k.source.rows4x4 # fh.rows4x4
       \/ k.source.columns4x4 # fh.columns4x4
       \/ IsIntraFrame(k.source.frame_type)
    THEN [returned |-> FALSE, kernel |-> FALSE, motion_field |-> field]
    ELSE IF k.reference_to_current_with_sign > kMaxFrameDistance
    THEN [returned |-> TRUE, kernel |-> FALSE, motion_field |-> field]
    ELSE [returned |-> TRUE, kernel |-> TRUE,
          motion_field |-> MotionFieldProjectionKernel_C(k, 0, field)]

(***************************************************************************)
(* SetupMotionField: the tests it makes before it calls                    *)
(* MotionFieldProjection for a reference.  relative_distance is            *)
(* GetRelativeDistance(current_frame.order_hint(reference),                *)
(* frame_header.order_hint, order_hint_shift_bits).                        *)
(***************************************************************************)
kReferenceFrameAlternate2 == 6

IsPastReference(reference) ==
    reference \in {kReferenceFrameLast, kReferenceFrameLast2}

\* reference_offset_last, _backward, _alternate2, _alternate, _last2
ReferenceOffset(reference, relative_distance) ==
    IF IsPastReference(reference) THEN -relative_distance
    ELSE relative_distance

\* SetupMotionField dealing with every reference whatever ref_stamp holds.
ConsidersReference_Always(reference, stamp, last_differs) ==
    reference = kReferenceFrameLast => last_differs

\* The outer tests: last_alternate_order_hint != current_gold_order_hint
\* for last, ref_stamp >= 0 for alternate and last2.
ConsidersReference(reference, stamp, last_differs) ==
    CASE reference = kReferenceFrameLast -> last_differs
      [] reference \in {kReferenceFrameAlternate, kReferenceFrameLast2} ->
           stamp >= 0
      [] OTHER -> TRUE

\* SetupMotionField calling MotionFieldProjection at any distance.
CallsProjection_AnyDistance(reference, reference_offset) == TRUE

\* The test of the distance before the call.
CallsProjection(reference, reference_offset) ==
    IF IsPastReference(reference)
    THEN Abs(reference_offset) <= kMaxFrameDistance
    ELSE reference_offset > 0

\* dst_sign of the call
DstSign(reference) == IF IsPastReference(reference) THEN -1 ELSE 0

\* --ref_stamp: for backward, alternate2 and alternate when the call
\* returned true.
NextRefStamp(reference, stamp, called, returned) ==
    IF ~IsPastReference(reference) /\ called /\ returned THEN stamp - 1
    ELSE stamp

(***************************************************************************)
(* 7.10.4.2, 7.9.2  AddSample and FindWarpSamples.  The Neighbor Store is  *)
(* the set of the blocks decoded so far, each with its position, size,     *)
(* reference frames and vectors; tile.Parameters(row, column) is the block *)
(* that covers the cell.  w is [num_warp_samples, num_samples_scanned,     *)
(* candidates, scan]; scan tells what the call did with a sample it        *)
(* counted: whether it was valid, the index it was stored at, or -1, and   *)
(* the candidate made of it.                                               *)
(***************************************************************************)
kMaxLeastSquaresSamples == 8

\* kWarpValidThreshold[block.size]
kWarpValidThreshold(blk) == Clip3(Max(blk.width, blk.height), 16, 112)

Covers(bp, row4x4, column4x4) ==
    /\ row4x4 >= bp.row4x4 /\ row4x4 < bp.row4x4 + bp.height4x4
    /\ column4x4 >= bp.column4x4 /\ column4x4 < bp.column4x4 + bp.width4x4

HasParameters(store, row4x4, column4x4) ==
    \E bp \in store : Covers(bp, row4x4, column4x4)

Parameters(store, row4x4, column4x4) ==
    CHOOSE bp \in store : Covers(bp, row4x4, column4x4)

\* candidates[index][0..3] = value; a store past the end of the array
\* lands in the memory after it.
StoreCandidate(array, index, value) ==
    [i \in DOMAIN array \cup {index} |-> IF i = index THEN value ELSE array[i]]

WarpCandidate(candidate_bp) ==
    LET mid_y == 4 * candidate_bp.row4x4 + 2 * candidate_bp.height4x4 - 1
        mid_x == 4 * candidate_bp.column4x4 + 2 * candidate_bp.width4x4 - 1
    IN  << 8 * mid_y, 8 * mid_x, 8 * mid_y + candidate_bp.mv[1][1],
           8 * mid_x + candidate_bp.mv[1][2] >>

\* AddSample without the test of num_samples_scanned against the capacity.
AddSample_NoCapacityTest(fh, blk, store, delta_row, delta_column, w) ==
    LET mv_row == blk.row4x4 + delta_row
        mv_column == blk.column4x4 + delta_column
        returned == [w EXCEPT !.scan = << >>]
    IN  IF \/ ~IsInside(fh, mv_row, mv_column)
           \/ ~HasParameters(store, mv_row, mv_column)
        THEN returned
        ELSE LET mv_bp == Parameters(store, mv_row, mv_column)
             IN  IF \/ mv_bp.reference_frame[1] # blk.reference_frame[1]
                    \/ mv_bp.reference_frame[2] # kReferenceFrameNone
                 THEN returned
                 ELSE LET count == w.num_samples_scanned + 1
                          candidate_row == mv_row - (mv_row % mv_bp.height4x4)
                          candidate_column ==
                              mv_column - (mv_column % mv_bp.width4x4)
                          candidate_bp ==
                              Parameters(store, candidate_row, candidate_column)
                          mv_diff_row == Abs(candidate_bp.mv[1][1] - blk.mv[1][1])
                          mv_diff_column ==
                              Abs(candidate_bp.mv[1][2] - blk.mv[1][2])
                          is_valid == mv_diff_row + mv_diff_column
                                        <= kWarpValidThreshold(blk)
                      IN  IF ~is_valid /\ count > 1
                          THEN [w EXCEPT !.num_samples_scanned = count,
                                         !.scan = << [is_valid |-> FALSE,
                                                      stored |-> -1,
                                                      candidate |->
                                                        WarpCandidate(candidate_bp)] >>]
                          ELSE [num_warp_samples |->
                                    w.num_warp_samples + BoolInt(is_valid),
                                num_samples_scanned |-> count,
                                candidates |->
                                    StoreCandidate(w.candidates,
                                        w.num_warp_samples,
                                        WarpCandidate(candidate_bp)),
                                scan |-> << [is_valid |-> is_valid,
                                             stored |-> w.num_warp_samples,
                                             candidate |->
                                               WarpCandidate(candidate_bp)] >>]

\* AddSample storing every sample it counts.
AddSample_StoresInvalid(fh, blk, store, delta_row, delta_column, w) ==
    LET mv_row == blk.row4x4 + delta_row
        mv_column == blk.column4x4 + delta_column
        returned == [w EXCEPT !.scan = << >>]
    IN  IF w.num_samples_scanned >= kMaxLeastSquaresSamples THEN returned
        ELSE IF \/ ~IsInside(fh, mv_row, mv_column)
                \/ ~HasParameters(store, mv_row, mv_column)
        THEN returned
        ELSE LET mv_bp == Parameters(store, mv_row, mv_column)
             IN  IF \/ mv_bp.reference_frame[1] # blk.reference_frame[1]
                    \/ mv_bp.reference_frame[2] # kReferenceFrameNone
                 THEN returned
                 ELSE LET count == w.num_samples_scanned + 1
                          candidate_row == mv_row - (mv_row % mv_bp.height4x4)
                          candidate_column ==
                              mv_column - (mv_column % mv_bp.width4x4)
                          candidate_bp ==
                              Parameters(store, candidate_row, candidate_column)
                          mv_diff_row == Abs(candidate_bp.mv[1][1] - blk.mv[1][1])
                          mv_diff_column ==
                              Abs(candidate_bp.mv[1][2] - blk.mv[1][2])
                          is_valid == mv_diff_row + mv_diff_column
                                        <= kWarpValidThreshold(blk)
                      IN  [num_warp_samples |->
                               w.num_warp_samples + BoolInt(is_valid),
                           num_samples_scanned |-> count,
                           candidates |->
                               StoreCandidate(w.candidates, w.num_warp_samples,
                                              WarpCandidate(candidate_bp)),
                           scan |-> << [is_valid |-> is_valid,
                                        stored |-> w.num_warp_samples,
                                        candidate |->
                                          WarpCandidate(candidate_bp)] >>]

AddSample(fh, blk, store, delta_row, delta_column, w) ==
    LET mv_row == blk.row4x4 + delta_row
        mv_column == blk.column4x4 + delta_column
        returned == [w EXCEPT !.scan = << >>]
    IN  IF w.num_samples_scanned >= kMaxLeastSquaresSamples THEN returned
        ELSE IF \/ ~IsInside(fh, mv_row, mv_column)
                \/ ~HasParameters(store, mv_row, mv_column)
        THEN returned
        ELSE LET mv_bp == Parameters(store, mv_row, mv_column)
             IN  IF \/ mv_bp.reference_frame[1] # blk.reference_frame[1]
                    \/ mv_bp.reference_frame[2] # kReferenceFrameNone
                 THEN returned
                 ELSE LET count == w.num_samples_scanned + 1
                          candidate_row == mv_row - (mv_row % mv_bp.height4x4)
                          candidate_column ==
                              mv_column - (mv_column % mv_bp.width4x4)
                          candidate_bp ==
                              Parameters(store, candidate_row, candidate_column)
                          mv_diff_row == Abs(candidate_bp.mv[1][1] - blk.mv[1][1])
                          mv_diff_column ==
                              Abs(candidate_bp.mv[1][2] - blk.mv[1][2])
                          is_valid == mv_diff_row + mv_diff_column
                                        <= kWarpValidThreshold(blk)
                      IN  IF ~is_valid /\ count > 1
                          THEN [w EXCEPT !.num_samples_scanned = count,
                                         !.scan = << [is_valid |-> FALSE,
                                                      stored |-> -1,
                                                      candidate |->
                                                        WarpCandidate(candidate_bp)] >>]
                          ELSE [num_warp_samples |->
                                    w.num_warp_samples + BoolInt(is_valid),
                                num_samples_scanned |-> count,
                                candidates |->
                                    StoreCandidate(w.candidates,
                                        w.num_warp_samples,
                                        WarpCandidate(candidate_bp)),
                                scan |-> << [is_valid |-> is_valid,
                                             stored |-> w.num_warp_samples,
                                             candidate |->
                                               WarpCandidate(candidate_bp)] >>]

\* FindWarpSamples returning the count of valid samples as it is.
ForceOneSample_Never(warp_samples, samples_scanned) == warp_samples

\* The last statement of FindWarpSamples.
ForceOneSample(warp_samples, samples_scanned) ==
    IF warp_samples = 0 /\ samples_scanned > 0 THEN 1 ELSE warp_samples

(***************************************************************************)
(* State.                                                                  *)
(*   fn, args, result, applied: one call of a pure helper, its arguments   *)
(*   and, once applied, its result.                                        *)
(*   frame_header, block, global_mv: the frame, the block being derived    *)
(*   and prediction_parameters.global_mv.                                  *)
(*   ref_mv_stack, compound_ref_mv_stack, weight_index_stack: the arrays   *)
(*   of prediction_parameters.                                             *)
(*   num_mv_found, found_new_mv, found_row_match, found_column_match:      *)
(*   locals of FindMvStack; zero_mv is contexts->zero_mv.                  *)
(*   pc: position in the derivation; calls: insertion calls made so far.   *)
(*   neighbours: the blocks above and left of the block, as the Neighbor   *)
(*   Store holds them.  nearest_mv_count, ref_mv_count: fields of          *)
(*   prediction_parameters.  nearest_matches: local of FindMvStack.        *)
(*   scan_mv_found: num_mv_found as the scans left it.  contexts: new_mv   *)
(*   and reference_mv of the MvContexts.                                   *)
(*   motion_field: the TemporalMotionField of the frame, a function from   *)
(*   <<row8x8, column8x8>> to [mv, reference_offset].  cursor: for each    *)
(*   running MotionFieldProjectionKernel_C call its slice and the source   *)
(*   cell (y8, x8) it is at.  written: the cells each call has stored to.  *)
(*   num_warp_samples, num_samples_scanned, candidates: the outputs of     *)
(*   FindWarpSamples.  scanned: for each sample AddSample counted, whether *)
(*   it was valid and the index it was stored at.                          *)
(*   ref_stamp: the local of SetupMotionField.  projections: for each      *)
(*   reference SetupMotionField has dealt with, what it did.  visited:     *)
(*   the neighbour blocks the scans of FindMvStack have read so far.       *)
(*   post_filter: the members of the PostFilter the super-resolution       *)
(*   reads.  row4x4_start: the first row of the superblock row or of the   *)
(*   job dealt with next.  upscaled: for each <<plane, row>> the           *)
(*   super_res_row calls that wrote the row, each named by who made it.    *)
(*   jobs: the calls of ApplySuperRes made by ApplySuperResThreaded, with  *)
(*   their arguments and how far each is.  pending_workers: the count of   *)
(*   the BlockingCounter.  line_buffer: the stretches of                   *)
(*   superres_line_buffer_ written, each with the job that wrote it.       *)
(***************************************************************************)
VARIABLES fn, args, result, applied,
          frame_header, block, global_mv,
          ref_mv_stack, compound_ref_mv_stack, weight_index_stack,
          num_mv_found, found_new_mv, found_row_match, found_column_match,
          zero_mv, pc, calls,
          neighbours, nearest_mv_count, nearest_matches, scan_mv_found,
          ref_mv_count, contexts,
          motion_field, cursor, written,
          num_warp_samples, num_samples_scanned, candidates, scanned,
          ref_stamp, projections, visited,
          post_filter, row4x4_start, upscaled, jobs, pending_workers,
          line_buffer

pure_vars == <<fn, args, result, applied>>

stack_vars ==
    <<ref_mv_stack, compound_ref_mv_stack, weight_index_stack, num_mv_found>>

frame_vars == <<motion_field, cursor, written>>

warp_vars == <<num_warp_samples, num_samples_scanned, candidates, scanned>>

setup_vars == <<ref_stamp, projections>>

superres_vars ==
    <<post_filter, row4x4_start, upscaled, jobs, pending_workers, line_buffer>>

block_vars == <<frame_header, block, global_mv>>

output_vars ==
    <<neighbours, nearest_mv_count, nearest_matches, scan_mv_found,
      ref_mv_count, contexts>>

vars ==
    <<fn, args, result, applied, frame_header, block, global_mv,
      ref_mv_stack, compound_ref_mv_stack, weight_index_stack,
      num_mv_found, found_new_mv, found_row_match, found_column_match,
      zero_mv, pc, calls, neighbours, nearest_mv_count, nearest_matches,
      scan_mv_found, ref_mv_count, contexts,
      motion_field, cursor, written,
      num_warp_samples, num_samples_scanned, candidates, scanned,
      ref_stamp, projections, visited,
      post_filter, row4x4_start, upscaled, jobs, pending_workers,
      line_buffer>>

PureIdle == fn = "none" /\ args = 0 /\ result = 0 /\ applied = FALSE

\* The content of an array element no code has written yet.
UnwrittenMv == << kInvalidMvValue, kInvalidMvValue >>

UnwrittenCompoundMv == << UnwrittenMv, UnwrittenMv >>

UnwrittenWeightIndex == -1

\* prediction_parameters and the locals as FindMvStack has them at line 776.
EmptyStacks ==
    /\ ref_mv_stack = [i \in StackIndices |-> UnwrittenMv]
    /\ compound_ref_mv_stack = [i \in StackIndices |-> UnwrittenCompoundMv]
    /\ weight_index_stack = [i \in StackIndices |-> UnwrittenWeightIndex]
    /\ num_mv_found = 0
    /\ found_new_mv = FALSE
    /\ found_row_match = FALSE
    /\ found_column_match = FALSE

\* Nothing read from the neighbours yet, no output of FindMvStack written.
OutputIdle ==
    /\ neighbours = 0
    /\ nearest_mv_count = 0 /\ nearest_matches = 0 /\ scan_mv_found = -1
    /\ ref_mv_count = 0 /\ contexts = << 0, 0 >>

\* No projection running, FindWarpSamples not called.
ProjectionIdle == cursor = 0 /\ written = {}

\* SetupMotionField not entered, no scan made.
SetupIdle == ref_stamp = 1 /\ projections = << >>

ScansIdle == visited = << >>

\* No post filter constructed.
SuperResIdle ==
    /\ post_filter = 0 /\ row4x4_start = 0 /\ upscaled = << >>
    /\ jobs = << >> /\ pending_workers = 0 /\ line_buffer = { }

WarpIdle ==
    /\ num_warp_samples = 0 /\ num_samples_scanned = 0
    /\ candidates = 0 /\ scanned = << >>

DerivationIdle ==
    /\ frame_header = 0 /\ block = 0 /\ global_mv = 0
    /\ EmptyStacks
    /\ zero_mv = 0 /\ pc = "idle" /\ calls = 0
    /\ OutputIdle
    /\ motion_field = 0 /\ ProjectionIdle /\ WarpIdle /\ SetupIdle /\ ScansIdle
    /\ SuperResIdle

Ctx == [frame_header |-> frame_header, block |-> block, global_mv |-> global_mv]

ScanState(new_mv_flag, match_flag) ==
    [ref_mv_stack |-> ref_mv_stack,
     compound_ref_mv_stack |-> compound_ref_mv_stack,
     weight_index_stack |-> weight_index_stack,
     num_mv_found |-> num_mv_found,
     found_new_mv |-> new_mv_flag, found_match |-> match_flag]

TemporalState ==
    [ref_mv_stack |-> ref_mv_stack,
     compound_ref_mv_stack |-> compound_ref_mv_stack,
     weight_index_stack |-> weight_index_stack,
     num_mv_found |-> num_mv_found,
     zero_mv_context |-> zero_mv]

\* The stores through prediction_parameters and num_mv_found.
WriteStacks(s) ==
    /\ ref_mv_stack' = s.ref_mv_stack
    /\ compound_ref_mv_stack' = s.compound_ref_mv_stack
    /\ weight_index_stack' = s.weight_index_stack
    /\ num_mv_found' = s.num_mv_found

(***************************************************************************)
(* Bounds of the helper calls that are enumerated.                         *)
(***************************************************************************)
MaxSortSize == 4
MaxSortBase == 2
MaxSortWeight == 2
MaxBlockPos == 1
MaxTemporalDistance == 3
MaxRankSize == 6
MaxRankWeight == 2
MaxNumerator == 33

FrameHeaders ==
    [allow_high_precision_mv : BOOLEAN, force_integer_mv : BOOLEAN]

\* Weights are sums of the even weights the scans insert (2 * step, 4, 2).
SortWeights == { 2 * w : w \in 0 .. MaxSortWeight }

\* weight_index_stack[base .. base+size-1] after the entries were set with
\* SetWeightIndexStackEntry and grown with IncreaseWeight.
SortInputs ==
    UNION { { [size |-> n, base |-> b,
               stack |-> [i \in 1 .. n |-> WeightIndexEntry(b + i - 1, w[i])]]
              : w \in [1 .. n -> SortWeights] }
            : <<n, b>> \in (0 .. MaxSortSize) \X (0 .. MaxSortBase) }

\* The weights of entries the scans inserted: even and at least 2.
RankWeights == { 2 * w : w \in 1 .. MaxRankWeight }

\* weight_index_stack with num_mv_found >= 2 entries, the first
\* nearest_mv_count of them from the nearest scans.
RankInputs ==
    UNION { { [nearest_mv_count |-> n, num_mv_found |-> m,
               stack |-> [i \in StackIndices |->
                            IF i < m THEN WeightIndexEntry(i, w[i])
                            ELSE UnwrittenWeightIndex]]
              : w \in [0 .. m - 1 -> RankWeights] }
            : <<n, m>> \in { x \in (0 .. MaxRankSize) \X (2 .. MaxRankSize) :
                               x[1] <= x[2] } }

ContextInputs ==
    [found_new_mv : BOOLEAN, nearest_matches : 0 .. 2, total_matches : 0 .. 2]

GlobalMotionParams ==
    { [i \in 0 .. 5 |-> CASE i = 0 -> t[1] [] i = 1 -> t[2] [] i = 2 -> a[1]
                          [] i = 3 -> a[2] [] i = 4 -> a[3] [] OTHER -> a[4]]
      : t \in {0, 45056, -28673} \X {0, 45056},
        a \in {65536, 67584} \X {0, 1024} \X {0, -1024} \X {65536} }

GlobalMotions ==
    [type : kGlobalMotionTransformationTypeIdentity ..
            kGlobalMotionTransformationTypeAffine,
     params : GlobalMotionParams]

PureBlocks ==
    [row4x4 : 0 .. MaxBlockPos, column4x4 : 0 .. MaxBlockPos,
     width : {8}, height : {8}]

GlobalMvInputs ==
    [frame_header : FrameHeaders,
     reference_type : {kReferenceFrameIntra, kReferenceFrameLast},
     gm : GlobalMotions, block : PureBlocks]

TemporalMvs == { <<r, c>> : r \in {-37, 0, 21}, c \in {-6, 11} }

TemporalInputs ==
    [frame_header : FrameHeaders, temporal_mv : TemporalMvs,
     reference_offset : -MaxTemporalDistance .. MaxTemporalDistance,
     temporal_reference_offset : 1 .. MaxTemporalDistance]

\* Vectors for GetMvProjection: components at the ends of int16, at the
\* clamp, at the largest stored size (4095) and small ones.
ProjectionMvs ==
    { << -32768, 32767 >>, << 32767, -32767 >>, << -16384, 16383 >>,
      << 16384, -16383 >>, << 4095, -4096 >>, << -4095, 4096 >>,
      << 1, -1 >>, << 0, 64 >>, << -37, 21 >>, << 529, -1057 >> }

ProjectionInputs ==
    [mv : ProjectionMvs,
     numerator : -MaxNumerator .. MaxNumerator,
     denominator : 1 .. kMaxFrameDistance]

PureInit ==
    /\ \/ fn = "ComputeContexts" /\ args \in ContextInputs
       \/ fn = "SortWeightIndexStack" /\ args \in SortInputs
       \/ fn = "SetupGlobalMv" /\ args \in GlobalMvInputs
       \/ fn = "TemporalCandidate" /\ args \in TemporalInputs
       \/ fn = "SortNearestThenRest" /\ args \in RankInputs
       \/ fn = "GetMvProjection" /\ args \in ProjectionInputs
    /\ result = 0
    /\ applied = FALSE
    /\ DerivationIdle

ApplyComputeContexts ==
    /\ fn = "ComputeContexts" /\ ~applied
    /\ result' = ComputeContexts(args.found_new_mv, args.nearest_matches,
                                 args.total_matches)
    /\ applied' = TRUE
    /\ UNCHANGED frame_vars /\ UNCHANGED warp_vars
    /\ UNCHANGED <<fn, args, block_vars, output_vars, stack_vars, found_new_mv,
                   found_row_match, found_column_match, zero_mv, pc, calls>>
    /\ UNCHANGED setup_vars /\ UNCHANGED superres_vars /\ UNCHANGED visited

ApplySortWeightIndexStack ==
    /\ fn = "SortWeightIndexStack" /\ ~applied
    /\ result' = SortWeightIndexStack(args.size, args.stack)
    /\ applied' = TRUE
    /\ UNCHANGED frame_vars /\ UNCHANGED warp_vars
    /\ UNCHANGED <<fn, args, block_vars, output_vars, stack_vars, found_new_mv,
                   found_row_match, found_column_match, zero_mv, pc, calls>>
    /\ UNCHANGED setup_vars /\ UNCHANGED superres_vars /\ UNCHANGED visited

ApplySetupGlobalMv ==
    /\ fn = "SetupGlobalMv" /\ ~applied
    /\ result' = SetupGlobalMv(args.frame_header, args.reference_type,
                               args.gm, args.block)
    /\ applied' = TRUE
    /\ UNCHANGED frame_vars /\ UNCHANGED warp_vars
    /\ UNCHANGED <<fn, args, block_vars, output_vars, stack_vars, found_new_mv,
                   found_row_match, found_column_match, zero_mv, pc, calls>>
    /\ UNCHANGED setup_vars /\ UNCHANGED superres_vars /\ UNCHANGED visited

ApplyTemporalCandidate ==
    /\ fn = "TemporalCandidate" /\ ~applied
    /\ result' = TemporalCandidate(args.frame_header, args.temporal_mv,
                   args.reference_offset, args.temporal_reference_offset)
    /\ applied' = TRUE
    /\ UNCHANGED frame_vars /\ UNCHANGED warp_vars
    /\ UNCHANGED <<fn, args, block_vars, output_vars, stack_vars, found_new_mv,
                   found_row_match, found_column_match, zero_mv, pc, calls>>
    /\ UNCHANGED setup_vars /\ UNCHANGED superres_vars /\ UNCHANGED visited

ApplySortNearestThenRest ==
    /\ fn = "SortNearestThenRest" /\ ~applied
    /\ result' = SortNearestThenRest(args.nearest_mv_count, args.num_mv_found,
                                     args.stack)
    /\ applied' = TRUE
    /\ UNCHANGED frame_vars /\ UNCHANGED warp_vars
    /\ UNCHANGED <<fn, args, block_vars, output_vars, stack_vars, found_new_mv,
                   found_row_match, found_column_match, zero_mv, pc, calls>>
    /\ UNCHANGED setup_vars /\ UNCHANGED superres_vars /\ UNCHANGED visited

ApplyGetMvProjection ==
    /\ fn = "GetMvProjection" /\ ~applied
    /\ result' = GetMvProjection(args.mv, args.numerator, args.denominator)
    /\ applied' = TRUE
    /\ UNCHANGED frame_vars /\ UNCHANGED warp_vars
    /\ UNCHANGED <<fn, args, block_vars, output_vars, stack_vars, found_new_mv,
                   found_row_match, found_column_match, zero_mv, pc, calls>>
    /\ UNCHANGED setup_vars /\ UNCHANGED superres_vars /\ UNCHANGED visited

PureNext ==
    \/ ApplyComputeContexts
    \/ ApplySortWeightIndexStack
    \/ ApplySetupGlobalMv
    \/ ApplyTemporalCandidate
    \/ ApplySortNearestThenRest
    \/ ApplyGetMvProjection

SpecPure == PureInit /\ [][PureNext]_vars

(***************************************************************************)
(* Candidate insertion from an empty stack, in the order of FindMvStack:   *)
(* any sequence of AddReferenceMvCandidate calls (as the row, column and   *)
(* point scans make them), then the iterations of                          *)
(* AddTemporalReferenceMvCandidate.                                        *)
(*                                                                         *)
(* The insertion helpers only compare vectors for equality, so the         *)
(* vectors the neighbours hold are enumerated in one order: a neighbour    *)
(* brings a vector that is in the stack already or the next new one.       *)
(***************************************************************************)
MaxHits == 1
MaxDistinctMvs == 9
MaxHeavyEntries == 1
MaxStackDistance == 2

\* The i-th motion vector the neighbours hold.
StackMv(i) == << 8 * i, -8 * i >>

\* The first component of a compound vector, or the vector itself.
FirstMv(candidate_mv) ==
    IF block.is_compound THEN candidate_mv[1] ELSE candidate_mv

StackEntry(k) ==
    IF block.is_compound THEN compound_ref_mv_stack[k] ELSE ref_mv_stack[k]

InStack(candidate_mv) ==
    \E k \in 0 .. num_mv_found - 1 : StackEntry(k) = candidate_mv

\* The index of the next new vector.
FreshMv ==
    Min(MaxDistinctMvs,
        1 + Cardinality({ i \in 1 .. MaxDistinctMvs :
                            \E k \in 0 .. num_mv_found - 1 :
                                FirstMv(StackEntry(k)) = StackMv(i) }))

\* The neighbours hold the first vector, the latest one or the next new one.
NextMvs == { i \in {1, FreshMv - 1, FreshMv} : i >= 1 }

AllowedCandidate(candidate_mv) ==
    \/ InStack(candidate_mv)
    \/ FirstMv(candidate_mv) = StackMv(FreshMv)
    \/ /\ candidate_mv = (IF block.is_compound THEN global_mv ELSE global_mv[1])
       /\ num_mv_found <= MaxHeavyEntries

\* 2 * step of a scan: 4 for a neighbour 2 units wide, 6 for one 3 units
\* wide.  Wide neighbours are met while the stack holds at most
\* MaxHeavyEntries entries.
StackWeights ==
    IF num_mv_found <= MaxHeavyEntries THEN {4, 6} ELSE {4}

NeighbourReferenceFrames ==
    { << kReferenceFrameIntra, kReferenceFrameNone >>,
      << kReferenceFrameLast, kReferenceFrameNone >>,
      << kReferenceFrameBackward, kReferenceFrameNone >>,
      << kReferenceFrameLast, kReferenceFrameBackward >> }

StackNeighbours ==
    { [is_inter |-> rf[1] > kReferenceFrameIntra, reference_frame |-> rf,
       mv |-> << StackMv(i), StackMv(j) >>,
       is_global_mv_block |-> g, new_mv |-> n, size |-> <<1, 1>>]
      : rf \in NeighbourReferenceFrames, i \in NextMvs, j \in {1},
        g \in BOOLEAN, n \in BOOLEAN }

\* The candidates a call of AddReferenceMvCandidate passes to SearchStack or
\* CompoundSearchStack.
CandidatesOf(mv_bp) ==
    IF ~mv_bp.is_inter THEN {}
    ELSE IF block.is_compound
    THEN IF mv_bp.reference_frame = block.reference_frame
         THEN { CompoundSearchStackCandidate(Ctx, mv_bp) }
         ELSE {}
    ELSE { SearchStackCandidate(Ctx, mv_bp, index) :
             index \in { x \in {0, 1} :
                 mv_bp.reference_frame[x + 1] = block.reference_frame[1] } }

StackGlobalMotion ==
    [r \in kReferenceFrameIntra .. kReferenceFrameAlternate |->
       [type |-> kGlobalMotionTransformationTypeRotZoom,
        params |-> [i \in 0 .. 5 |-> CASE i = 0 -> 45056 [] i = 1 -> -28673
                                       [] i = 2 -> 67584 [] i = 5 -> 65536
                                       [] OTHER -> 0]]]

\* GetRelativeDistance(frame order hint, reference order hint): positive for
\* the forward references, negative for the backward ones.
StackRelativeDistance ==
    [r \in kReferenceFrameLast .. kReferenceFrameAlternate |->
       IF r < kReferenceFrameBackward THEN 1 ELSE -1]

StackFrameHeader ==
    [allow_high_precision_mv |-> FALSE, force_integer_mv |-> FALSE,
     use_ref_frame_mvs |-> TRUE, rows4x4 |-> 4, columns4x4 |-> 4,
     global_motion |-> StackGlobalMotion,
     relative_distance |-> StackRelativeDistance,
     reference_frame_sign_bias |->
       [r \in kReferenceFrameIntra .. kReferenceFrameAlternate |->
          r >= kReferenceFrameBackward]]

StackBlocks ==
    { [row4x4 |-> 2, column4x4 |-> 2, width4x4 |-> 1, height4x4 |-> 1,
       width |-> 4, height |-> 4,
       is_compound |-> rf[2] # kReferenceFrameNone, reference_frame |-> rf]
      : rf \in { << kReferenceFrameBackward, kReferenceFrameNone >>,
                 << kReferenceFrameLast, kReferenceFrameBackward >> } }

GlobalMvOf(fh, blk) ==
    << SetupGlobalMv(fh, blk.reference_frame[1],
                     fh.global_motion[blk.reference_frame[1]], blk),
       IF blk.is_compound
       THEN SetupGlobalMv(fh, blk.reference_frame[2],
                          fh.global_motion[blk.reference_frame[2]], blk)
       ELSE UnwrittenMv >>

ReferenceOffsets ==
    << frame_header.relative_distance[block.reference_frame[1]],
       IF block.is_compound
       THEN frame_header.relative_distance[block.reference_frame[2]]
       ELSE 0 >>

\* The temporal samples: a stored vector and its reference distance.
StackSamples ==
    { << mv, d >> : mv \in UNION { { StackMv(i), NegateMv(StackMv(i)) } : i \in NextMvs },
                    d \in 1 .. MaxStackDistance }

TemporalCandidateOf(sample) ==
    IF block.is_compound
    THEN << TemporalCandidate(frame_header, sample[1], ReferenceOffsets[1], sample[2]),
            TemporalCandidate(frame_header, sample[1], ReferenceOffsets[2], sample[2]) >>
    ELSE TemporalCandidate(frame_header, sample[1], ReferenceOffsets[1], sample[2])

\* The number of IncreaseWeight calls that lead from the weights w to v.
WeightIncreases(w, v) ==
    Cardinality({ i \in StackIndices : w[i] # v[i] /\ w[i] # UnwrittenWeightIndex })

\* What the last insertion did with its candidate.
InsertionOutcome(has_candidate, s) ==
    IF ~has_candidate THEN "skipped"
    ELSE IF s.num_mv_found # num_mv_found THEN "appended"
    ELSE IF s.weight_index_stack # weight_index_stack THEN "increased"
    ELSE "dropped"

StackInit ==
    /\ fn = "none" /\ args = 0 /\ applied = FALSE
    /\ result = "none"
    /\ frame_header = StackFrameHeader
    /\ block \in StackBlocks
    /\ global_mv = GlobalMvOf(frame_header, block)
    /\ EmptyStacks
    /\ zero_mv = -1
    /\ pc = "scan"
    /\ calls = 0
    /\ OutputIdle
    /\ motion_field = 0 /\ ProjectionIdle /\ WarpIdle /\ SetupIdle /\ ScansIdle
    /\ SuperResIdle

\* A scan's call of AddReferenceMvCandidate with &found_new_mv and
\* &found_row_match.
StackAddReference ==
    /\ pc = "scan"
    /\ \E mv_bp \in StackNeighbours, weight \in StackWeights :
         LET s == AddReferenceMvCandidate(Ctx, mv_bp, block.is_compound, weight,
                    ScanState(found_new_mv, found_row_match))
         IN  /\ \A c \in CandidatesOf(mv_bp) : AllowedCandidate(c)
             /\ WriteStacks(s)
             /\ found_new_mv' = s.found_new_mv
             /\ found_row_match' = s.found_match
             /\ calls' = calls + WeightIncreases(weight_index_stack,
                                                 s.weight_index_stack)
             /\ result' = InsertionOutcome(CandidatesOf(mv_bp) # {}, s)
    /\ calls' <= MaxHits
    /\ UNCHANGED frame_vars /\ UNCHANGED warp_vars
    /\ UNCHANGED <<fn, args, applied, block_vars, output_vars, found_column_match,
                   zero_mv, pc>>
    /\ UNCHANGED setup_vars /\ UNCHANGED superres_vars /\ UNCHANGED visited

\* FindMvStack goes on from the nearest scans to TemporalScan.
StackBeginTemporal ==
    /\ pc = "scan"
    /\ pc' = "temporal"
    /\ UNCHANGED frame_vars /\ UNCHANGED warp_vars
    /\ UNCHANGED <<pure_vars, block_vars, output_vars, stack_vars, found_new_mv,
                   found_row_match, found_column_match, zero_mv, calls>>
    /\ UNCHANGED setup_vars /\ UNCHANGED superres_vars /\ UNCHANGED visited

\* One iteration of AddTemporalReferenceMvCandidate.
StackAddTemporal ==
    /\ pc = "temporal"
    /\ \E sample \in StackSamples :
         LET t == AddTemporalSample(Ctx, ReferenceOffsets, sample[1],
                                    sample[2], TemporalState)
         IN  /\ AllowedCandidate(TemporalCandidateOf(sample))
             /\ WriteStacks(t)
             /\ zero_mv' = t.zero_mv_context
             /\ calls' = calls + WeightIncreases(weight_index_stack,
                                                 t.weight_index_stack)
             /\ result' = InsertionOutcome(TRUE, t)
    /\ calls' <= MaxHits
    /\ UNCHANGED frame_vars /\ UNCHANGED warp_vars
    /\ UNCHANGED <<fn, args, applied, block_vars, output_vars, found_new_mv,
                   found_row_match, found_column_match, pc>>
    /\ UNCHANGED setup_vars /\ UNCHANGED superres_vars /\ UNCHANGED visited

StackNext == StackAddReference \/ StackBeginTemporal \/ StackAddTemporal

SpecStack == StackInit /\ [][StackNext]_vars

(***************************************************************************)
(* FindMvStack for one block of a frame of 4 by 4 units: the nearest       *)
(* scans, TemporalScan, the further scans, then ExtraSearch or the sorts,  *)
(* and ComputeContexts.  The blocks above and left of the block are in     *)
(* the Neighbor Store from the start; the other blocks and the motion      *)
(* field cells are drawn when they are read.                               *)
(***************************************************************************)
BlockPositions == { <<0, 0>>, <<1, 1>>, <<3, 3>> }

DerivedFrameHeaders ==
    { [StackFrameHeader EXCEPT !.use_ref_frame_mvs = u] : u \in BOOLEAN }

DerivedBlocks ==
    { [row4x4 |-> p[1], column4x4 |-> p[2], width4x4 |-> 1, height4x4 |-> 1,
       width |-> 4, height |-> 4,
       is_compound |-> rf[2] # kReferenceFrameNone, reference_frame |-> rf]
      : p \in BlockPositions,
        rf \in { << kReferenceFrameLast, kReferenceFrameNone >>,
                 << kReferenceFrameLast, kReferenceFrameBackward >> } }

Cell(rf, mv, g, n) ==
    [is_inter |-> rf[1] > kReferenceFrameIntra, reference_frame |-> rf,
     mv |-> mv, is_global_mv_block |-> g, new_mv |-> n, size |-> <<1, 1>>]

IntraCell ==
    Cell(<< kReferenceFrameIntra, kReferenceFrameNone >>, << ZeroMv, ZeroMv >>,
         FALSE, FALSE)

\* The blocks drawn for the corners, the rows and columns further away.
FurtherCells ==
    { IntraCell,
      Cell(<< kReferenceFrameLast, kReferenceFrameNone >>,
           << StackMv(1), ZeroMv >>, FALSE, FALSE),
      Cell(<< kReferenceFrameLast, kReferenceFrameNone >>,
           << StackMv(2), ZeroMv >>, FALSE, TRUE),
      Cell(<< kReferenceFrameLast, kReferenceFrameBackward >>,
           << StackMv(1), StackMv(2) >>, FALSE, FALSE) }

\* The blocks above and left of the block.
NeighbourCells ==
    FurtherCells \cup
    { Cell(<< kReferenceFrameLast, kReferenceFrameBackward >>,
           << StackMv(2), StackMv(3) >>, FALSE, TRUE),
      Cell(<< kReferenceFrameLast, kReferenceFrameNone >>,
           << StackMv(3), ZeroMv >>, TRUE, FALSE),
      Cell(<< kReferenceFrameBackward, kReferenceFrameNone >>,
           << StackMv(1), ZeroMv >>, FALSE, FALSE),
      Cell(<< kReferenceFrameLast2, kReferenceFrameAlternate >>,
           << StackMv(2), StackMv(3) >>, FALSE, FALSE) }

\* A row or column that lies outside the tile is never read.
CellRows(inside, length) ==
    IF inside THEN [0 .. length - 1 -> NeighbourCells]
    ELSE { [i \in 0 .. length - 1 |-> IntraCell] }

NeighbourStores(blk) ==
    [above : CellRows(IsTopInside(blk.row4x4), blk.width4x4),
     left : CellRows(IsLeftInside(blk.column4x4), blk.height4x4)]

\* A cell of the motion field: no vector stored, or a vector and the
\* distance to the frame it points to.
MotionFieldSamples ==
    { [mv |-> UnwrittenMv, reference_offset |-> 0],
      [mv |-> StackMv(1), reference_offset |-> 1],
      [mv |-> << -48, 64 >>, reference_offset |-> 2] }

\* The cells TemporalScan can read for the block.
MotionFieldCells(fh, blk) ==
    { << p[1] \div 2, p[2] \div 2 >> :
        p \in { q \in { TemporalGrid(blk)[n] : n \in DOMAIN TemporalGrid(blk) }
                      \cup { << OrOne(blk.row4x4) + d[1], OrOne(blk.column4x4) + d[2] >> :
                               d \in { TemporalSamplePositions(blk)[n] :
                                         n \in DOMAIN TemporalSamplePositions(blk) } } :
                  IsInside(fh, q[1], q[2]) } }

\* The motion field of the frame: the cells TemporalScan can read hold any
\* sample, the others no vector.  A frame that does not use temporal
\* vectors has no field built.
MotionFields(fh, blk) ==
    IF fh.use_ref_frame_mvs
    THEN { [c \in (0 .. fh.rows4x4 \div 2 - 1) \X (0 .. fh.columns4x4 \div 2 - 1) |->
              IF c \in MotionFieldCells(fh, blk) THEN m[c]
              ELSE [mv |-> UnwrittenMv, reference_offset |-> 0]]
           : m \in [MotionFieldCells(fh, blk) -> MotionFieldSamples] }
    ELSE { [c \in (0 .. fh.rows4x4 \div 2 - 1) \X (0 .. fh.columns4x4 \div 2 - 1) |->
              [mv |-> UnwrittenMv, reference_offset |-> 0]] }

\* The blocks the do-while loop of ScanRow or ScanColumn reads.
RECURSIVE ScanLoopReads(_, _, _, _, _, _)
ScanLoopReads(bps, offset, end_bps, extent4x4, min_step, dim) ==
    LET step == Max(Min(extent4x4, bps[offset].size[dim]), min_step)
    IN  { bps[offset] } \cup
        IF offset + step < end_bps
        THEN ScanLoopReads(bps, offset + step, end_bps, extent4x4, min_step, dim)
        ELSE { }

ScanRowReads(ctx, bps, delta_row) ==
    IF ~IsTopInside(ctx.block.row4x4 + delta_row + 1) THEN { }
    ELSE ScanLoopReads(bps, 0,
                       Min(Min(ctx.block.width4x4,
                               ctx.frame_header.columns4x4 - ctx.block.column4x4), 16),
                       ctx.block.width4x4,
                       GetMinimumStep(ctx.block.width4x4, delta_row), 1)

ScanColumnReads(ctx, bps, delta_column) ==
    IF ~IsLeftInside(ctx.block.column4x4 + delta_column + 1) THEN { }
    ELSE ScanLoopReads(bps, 0,
                       Min(Min(ctx.block.height4x4,
                               ctx.frame_header.rows4x4 - ctx.block.row4x4), 16),
                       ctx.block.height4x4,
                       GetMinimumStep(ctx.block.height4x4, delta_column), 2)

ScanPointReads(ctx, delta_row, delta_column, has_parameters, mv_bp) ==
    IF /\ IsInside(ctx.frame_header, ctx.block.row4x4 + delta_row,
                   ctx.block.column4x4 + delta_column)
       /\ has_parameters
    THEN { mv_bp }
    ELSE { }

StacksOf(new_mv_flag, match_flag, num) ==
    [ScanState(new_mv_flag, match_flag) EXCEPT !.num_mv_found = num]

Init ==
    /\ PureIdle
    /\ frame_header \in DerivedFrameHeaders
    /\ block \in DerivedBlocks
    /\ global_mv = UnwrittenCompoundMv
    /\ EmptyStacks
    /\ zero_mv = -1
    /\ pc = "FindMvStack"
    /\ calls = 0
    /\ neighbours \in NeighbourStores(block)
    /\ nearest_mv_count = 0 /\ nearest_matches = 0 /\ scan_mv_found = -1
    /\ ref_mv_count = 0 /\ contexts = << 0, 0 >>
    /\ motion_field \in MotionFields(frame_header, block)
    /\ ProjectionIdle /\ WarpIdle /\ SetupIdle /\ ScansIdle /\ SuperResIdle

\* FindMvStack up to the store of nearest_mv_count: SetupGlobalMv, ScanRow
\* and ScanColumn at -1, ScanPoint above right.
NearestScans ==
    /\ pc = "FindMvStack"
    /\ \E has_parameters \in BOOLEAN, above_right \in FurtherCells :
         LET ctx == [frame_header |-> frame_header, block |-> block,
                     global_mv |-> GlobalMvOf(frame_header, block)]
             row == ScanRow(ctx, neighbours.above, -1, StacksOf(FALSE, FALSE, 0))
             column == ScanColumn(ctx, neighbours.left, -1,
                                  [row EXCEPT !.found_match = FALSE])
             point == IF Max(block.width4x4, block.height4x4) <= 16
                      THEN ScanPoint(ctx, -1, block.width4x4, has_parameters,
                                     above_right,
                                     [column EXCEPT !.found_match = row.found_match])
                      ELSE [column EXCEPT !.found_match = row.found_match]
         IN  /\ global_mv' = ctx.global_mv
             /\ WriteStacks(point)
             /\ found_new_mv' = point.found_new_mv
             /\ found_row_match' = point.found_match
             /\ found_column_match' = column.found_match
             /\ nearest_matches' = BoolInt(point.found_match)
                                     + BoolInt(column.found_match)
             /\ nearest_mv_count' = point.num_mv_found
             /\ visited' = Append(visited,
                   [scan |-> "nearest",
                    cells |-> ScanRowReads(ctx, neighbours.above, -1)
                       \cup ScanColumnReads(ctx, neighbours.left, -1)
                       \cup IF Max(block.width4x4, block.height4x4) <= 16
                            THEN ScanPointReads(ctx, -1, block.width4x4,
                                                has_parameters, above_right)
                            ELSE { }])
    /\ pc' = "TemporalScan"
    /\ UNCHANGED frame_vars /\ UNCHANGED warp_vars
    /\ UNCHANGED <<pure_vars, frame_header, block, zero_mv, calls, neighbours,
                   scan_mv_found, ref_mv_count, contexts>>
    /\ UNCHANGED setup_vars /\ UNCHANGED superres_vars

\* contexts->zero_mv and TemporalScan.
TemporalStep ==
    /\ pc = "TemporalScan"
    /\ IF frame_header.use_ref_frame_mvs
       THEN LET t == TemporalScan(Ctx, motion_field,
                                  [TemporalState EXCEPT !.zero_mv_context = -1])
            IN  /\ WriteStacks(t)
                /\ zero_mv' = t.zero_mv_context
       ELSE /\ zero_mv' = 0
            /\ UNCHANGED stack_vars
    /\ pc' = "ScanFurther"
    /\ UNCHANGED frame_vars /\ UNCHANGED warp_vars
    /\ UNCHANGED <<pure_vars, block_vars, output_vars, found_new_mv,
                   found_row_match, found_column_match, calls>>
    /\ UNCHANGED setup_vars /\ UNCHANGED superres_vars /\ UNCHANGED visited

\* The blocks a further scan reads, if it is made: its step is at least 2,
\* so they are the ones at the even offsets.
FurtherRows(made, length) ==
    IF made THEN [{ k \in 0 .. length - 1 : k % 2 = 0 } -> FurtherCells]
    ELSE { [k \in { k \in 0 .. length - 1 : k % 2 = 0 } |-> IntraCell] }

\* ScanPoint above left and the scans at -3 and -5, with dummy_bool for
\* found_new_mv.
FurtherScans ==
    /\ pc = "ScanFurther"
    /\ \E has_parameters \in BOOLEAN, above_left \in FurtherCells,
          rows \in [0 .. 1 -> FurtherRows(block.row4x4 >= 3, block.width4x4)],
          columns \in [0 .. 1 -> FurtherRows(block.column4x4 >= 3, block.height4x4)] :
         LET point == ScanPoint(Ctx, -1, -1, has_parameters, above_left,
                                StacksOf(FALSE, found_row_match, num_mv_found))
             row0 == ScanRow(Ctx, rows[0], -3 + (block.row4x4 % 2), point)
             column0 == ScanColumn(Ctx, columns[0], -3 + (block.column4x4 % 2),
                                   [row0 EXCEPT !.found_match = found_column_match])
             row1 == IF block.height4x4 > 1
                     THEN ScanRow(Ctx, rows[1], -5 + (block.row4x4 % 2),
                                  [column0 EXCEPT !.found_match = row0.found_match])
                     ELSE [column0 EXCEPT !.found_match = row0.found_match]
             column1 == IF block.width4x4 > 1
                        THEN ScanColumn(Ctx, columns[1], -5 + (block.column4x4 % 2),
                                        [row1 EXCEPT !.found_match = column0.found_match])
                        ELSE [row1 EXCEPT !.found_match = column0.found_match]
         IN  /\ rows[1] = rows[0] \/ block.height4x4 > 1
             /\ columns[1] = columns[0] \/ block.width4x4 > 1
             /\ WriteStacks(column1)
             /\ found_row_match' = row1.found_match
             /\ found_column_match' = column1.found_match
             /\ scan_mv_found' = column1.num_mv_found
             /\ visited' = Append(visited,
                   [scan |-> "further",
                    cells |-> ScanPointReads(Ctx, -1, -1, has_parameters, above_left)
                       \cup ScanRowReads(Ctx, rows[0], -3 + (block.row4x4 % 2))
                       \cup ScanColumnReads(Ctx, columns[0],
                                            -3 + (block.column4x4 % 2))
                       \cup (IF block.height4x4 > 1
                             THEN ScanRowReads(Ctx, rows[1],
                                               -5 + (block.row4x4 % 2))
                             ELSE { })
                       \cup (IF block.width4x4 > 1
                             THEN ScanColumnReads(Ctx, columns[1],
                                                  -5 + (block.column4x4 % 2))
                             ELSE { })])
    /\ pc' = "Rank"
    /\ UNCHANGED frame_vars /\ UNCHANGED warp_vars
    /\ UNCHANGED <<pure_vars, block_vars, found_new_mv, zero_mv, calls,
                   neighbours, nearest_mv_count, nearest_matches, ref_mv_count,
                   contexts>>
    /\ UNCHANGED setup_vars /\ UNCHANGED superres_vars

\* ExtraSearch or the sorts, ref_mv_count and ComputeContexts.
RankAndReturn ==
    /\ pc = "Rank"
    /\ IF num_mv_found < 2
       THEN WriteStacks(ExtraSearch(Ctx, neighbours.above, neighbours.left,
                                    StacksOf(found_new_mv, found_row_match,
                                             num_mv_found)))
       ELSE /\ weight_index_stack' =
                 SortNearestThenRest(nearest_mv_count, num_mv_found,
                                     weight_index_stack)
            /\ UNCHANGED <<ref_mv_stack, compound_ref_mv_stack, num_mv_found>>
    /\ ref_mv_count' = num_mv_found'
    /\ contexts' = ComputeContexts(found_new_mv, nearest_matches,
                     BoolInt(found_row_match) + BoolInt(found_column_match))
    /\ pc' = "done"
    /\ UNCHANGED frame_vars /\ UNCHANGED warp_vars
    /\ UNCHANGED <<pure_vars, block_vars, found_new_mv, found_row_match,
                   found_column_match, zero_mv, calls, neighbours,
                   nearest_mv_count, nearest_matches, scan_mv_found>>
    /\ UNCHANGED setup_vars /\ UNCHANGED superres_vars /\ UNCHANGED visited

Next == NearestScans \/ TemporalStep \/ FurtherScans \/ RankAndReturn

Spec == Init /\ [][Next]_vars

(***************************************************************************)
(* MotionFieldProjection called for one reference after another on the     *)
(* motion field of a frame of 2 by 10 cells that starts with no vector     *)
(* stored, as SetupMotionField calls it for the slice of a tile.           *)
(***************************************************************************)
MaxProjections == 2
MaxPattern == 1

InvalidSample == [mv |-> UnwrittenMv, reference_offset |-> 0]

EmptyField(rows8, columns8) ==
    [c \in (0 .. rows8 - 1) \X (0 .. columns8 - 1) |-> InvalidSample]

\* The reference types and vectors the blocks of a source frame stored.
SourceTypes ==
    << kReferenceFrameLast, kReferenceFrameIntra, kReferenceFrameBackward,
       kReferenceFrameLast2, kReferenceFrameAlternate >>

SourceMvs ==
    << << 0, 64 >>, << 64, -64 >>, << -64, 0 >>, << -37, 21 >>,
       << 128, 64 >>, << 0, 640 >>, << 4095, -4095 >> >>

\* A source frame: an intra frame stored no inter block.
SourceFrame(p, rows4x4, columns4x4, frame_type) ==
    LET cells == (0 .. rows4x4 \div 2 - 1) \X (0 .. columns4x4 \div 2 - 1)
        n(c) == c[1] * (columns4x4 \div 2) + c[2] + p
    IN  [rows4x4 |-> rows4x4, columns4x4 |-> columns4x4,
         frame_type |-> frame_type,
         reference_frame |->
           [c \in cells |-> IF IsIntraFrame(frame_type) THEN kReferenceFrameIntra
                            ELSE SourceTypes[1 + (n(c) % Len(SourceTypes))]],
         mv |-> [c \in cells |-> IF IsIntraFrame(frame_type) THEN ZeroMv
                                 ELSE SourceMvs[1 + (n(c) % Len(SourceMvs))]]]

SourceFrames(fh) ==
    { SourceFrame(p, d[1], d[2], d[3]) :
        p \in 0 .. MaxPattern,
        d \in { << fh.rows4x4, fh.columns4x4, kFrameInter >>,
                << fh.rows4x4, fh.columns4x4, kFrameKey >>,
                << fh.rows4x4, fh.columns4x4, kFrameIntraOnly >>,
                << fh.rows4x4 + 2, fh.columns4x4, kFrameInter >>,
                << fh.rows4x4, fh.columns4x4 + 2, kFrameInter >> } }

\* The distances from the source frame to its own references, by reference
\* type: in range, zero, negative and beyond kMaxFrameDistance.
SourceReferenceOffsets ==
    { [r \in kReferenceFrameIntra .. kReferenceFrameAlternate |->
         CASE r = kReferenceFrameLast -> 1
           [] r = kReferenceFrameLast2 -> 2
           [] r = kReferenceFrameBackward -> -1
           [] r = kReferenceFrameAlternate -> 40
           [] OTHER -> 0],
      [r \in kReferenceFrameIntra .. kReferenceFrameAlternate |->
         CASE r = kReferenceFrameLast -> kMaxFrameDistance
           [] r = kReferenceFrameBackward -> 3
           [] r = kReferenceFrameAlternate -> 1
           [] OTHER -> 0] }

\* The calls made for a frame: the slice is all the frame or its last
\* columns.
KernelCalls(fh) ==
    { [source |-> source, reference_offsets |-> offsets,
       reference_to_current_with_sign |-> d, dst_sign |-> sign,
       y8_start |-> 0, y8_end |-> fh.rows4x4 \div 2,
       x8_start |-> x, x8_end |-> fh.columns4x4 \div 2,
       stride |-> fh.columns4x4 \div 2]
      : source \in SourceFrames(fh), offsets \in SourceReferenceOffsets,
        d \in {-2, 1, 3, kMaxFrameDistance + 1}, sign \in {-1, 0},
        x \in {0, 8} }

ProjectionFrame == [rows4x4 |-> 4, columns4x4 |-> 20]

ProjectCalls == KernelCalls(ProjectionFrame)

ProjectInit ==
    /\ fn = "none" /\ args = [source |-> "none"] /\ applied = FALSE
    /\ result = FALSE
    /\ frame_header = ProjectionFrame
    /\ block = 0 /\ global_mv = 0
    /\ EmptyStacks
    /\ zero_mv = 0 /\ pc = "SetupMotionField" /\ calls = 0
    /\ OutputIdle
    /\ motion_field = EmptyField(2, 10)
    /\ ProjectionIdle /\ WarpIdle /\ SetupIdle /\ ScansIdle /\ SuperResIdle

\* One call of MotionFieldProjection.
ProjectReference ==
    /\ pc = "SetupMotionField"
    /\ calls < MaxProjections
    /\ \E k \in ProjectCalls :
         LET r == MotionFieldProjection(frame_header, k, motion_field)
         IN  /\ args' = k
             /\ result' = r.returned
             /\ motion_field' = r.motion_field
    /\ calls' = calls + 1
    /\ UNCHANGED warp_vars
    /\ UNCHANGED <<fn, applied, block_vars, output_vars, stack_vars,
                   found_new_mv, found_row_match, found_column_match, zero_mv,
                   pc, cursor, written>>
    /\ UNCHANGED setup_vars /\ UNCHANGED superres_vars /\ UNCHANGED visited

ProjectNext == ProjectReference

SpecProject == ProjectInit /\ [][ProjectNext]_vars

(***************************************************************************)
(* SetupMotionField for the one slice of a frame of 2 by 10 cells, one     *)
(* reference at a time.  cursor counts the references dealt with; the      *)
(* distance of a reference and its frame are drawn when they are read;     *)
(* args holds the arguments of the last call of MotionFieldProjection.     *)
(***************************************************************************)
MaxSetupDistance == 32

\* The references in the order of the statements of SetupMotionField.
SetupOrder ==
    << kReferenceFrameLast, kReferenceFrameBackward, kReferenceFrameAlternate2,
       kReferenceFrameAlternate, kReferenceFrameLast2 >>

\* What GetRelativeDistance yields for the reference: behind the frame or
\* ahead of it, next to it or far away, or at the same order hint.
SetupDistances == {-MaxSetupDistance, -1, 0, 1, MaxSetupDistance}

SetupSources ==
    { SourceFrame(0, d[1], d[2], d[3]) :
        d \in { << ProjectionFrame.rows4x4, ProjectionFrame.columns4x4, kFrameInter >>,
                << ProjectionFrame.rows4x4, ProjectionFrame.columns4x4, kFrameKey >>,
                << ProjectionFrame.rows4x4 + 2, ProjectionFrame.columns4x4, kFrameInter >> } }

SetupReferenceOffsets ==
    CHOOSE offsets \in SourceReferenceOffsets : offsets[kReferenceFrameLast] = 1

SetupInit ==
    /\ fn = "none" /\ args = [source |-> "none"] /\ applied = FALSE
    /\ result = FALSE
    /\ frame_header = ProjectionFrame
    /\ block = 0 /\ global_mv = 0
    /\ EmptyStacks
    /\ zero_mv = 0 /\ pc = "SetupMotionField" /\ calls = 0
    /\ OutputIdle
    /\ motion_field = EmptyField(2, 10)
    /\ ProjectionIdle /\ WarpIdle /\ SetupIdle /\ ScansIdle /\ SuperResIdle

\* The statements of SetupMotionField for the next reference.
SetupReference ==
    /\ pc = "SetupMotionField"
    /\ LET reference == SetupOrder[cursor + 1]
       IN  \E last_differs \in (IF reference = kReferenceFrameLast
                                 THEN BOOLEAN ELSE {TRUE}) :
             LET considered == ConsidersReference(reference, ref_stamp,
                                                  last_differs)
             IN  \E distance \in (IF considered THEN SetupDistances ELSE {0}) :
                   LET offset == ReferenceOffset(reference, distance)
                       called == considered /\ CallsProjection(reference, offset)
                   IN  \E source \in (IF called THEN SetupSources
                                       ELSE {"none"}) :
                         LET k == [source |-> source,
                                   reference_offsets |-> SetupReferenceOffsets,
                                   reference_to_current_with_sign |-> offset,
                                   dst_sign |-> DstSign(reference),
                                   y8_start |-> 0,
                                   y8_end |-> frame_header.rows4x4 \div 2,
                                   x8_start |-> 0,
                                   x8_end |-> frame_header.columns4x4 \div 2,
                                   stride |-> frame_header.columns4x4 \div 2]
                             r == IF called
                                  THEN MotionFieldProjection(frame_header, k,
                                                             motion_field)
                                  ELSE [returned |-> FALSE, kernel |-> FALSE,
                                        motion_field |-> motion_field]
                         IN  /\ motion_field' = r.motion_field
                             /\ args' = IF called THEN k ELSE args
                             /\ result' = r.returned
                             /\ calls' = calls + BoolInt(called)
                             /\ ref_stamp' = NextRefStamp(reference, ref_stamp,
                                                          called, r.returned)
                             /\ projections' = Append(projections,
                                   [reference |-> reference,
                                    considered |-> considered,
                                    reference_offset |-> offset,
                                    called |-> called,
                                    returned |-> r.returned,
                                    kernel |-> r.kernel])
    /\ cursor' = cursor + 1
    /\ pc' = IF cursor + 1 < Len(SetupOrder) THEN pc ELSE "done"
    /\ UNCHANGED warp_vars /\ UNCHANGED visited /\ UNCHANGED superres_vars
    /\ UNCHANGED <<fn, applied, block_vars, output_vars, stack_vars,
                   found_new_mv, found_row_match, found_column_match, zero_mv,
                   written>>

SetupNext == SetupReference

SpecSetup == SetupInit /\ [][SetupNext]_vars

(***************************************************************************)
(* Two calls of MotionFieldProjectionKernel_C on one motion field of 10    *)
(* by 10 cells, for the rows 0 .. 7 and 8 .. 9 of the same source frame,   *)
(* running at the same time: a step is one iteration of the inner loop of  *)
(* one of the calls.                                                       *)
(***************************************************************************)
SliceFrame == [rows4x4 |-> 20, columns4x4 |-> 20]

Slices == << [y8_start |-> 0, y8_end |-> 8], [y8_start |-> 8, y8_end |-> 10] >>

\* The calls of the two slices: the same source, reference and columns.
SliceCalls ==
    { [w \in DOMAIN Slices |->
         [k EXCEPT !.y8_start = Slices[w].y8_start,
                   !.y8_end = Slices[w].y8_end]]
      : k \in { c \in KernelCalls(SliceFrame) :
                  /\ c.source.rows4x4 = SliceFrame.rows4x4
                  /\ c.source.columns4x4 = SliceFrame.columns4x4
                  /\ c.source.frame_type = kFrameInter
                  /\ c.reference_to_current_with_sign \in {1, 3} } }

SliceInit ==
    /\ fn = "none" /\ args \in SliceCalls /\ applied = FALSE
    /\ result = FALSE
    /\ frame_header = SliceFrame
    /\ block = 0 /\ global_mv = 0
    /\ EmptyStacks
    /\ zero_mv = 0 /\ pc = "kernel" /\ calls = 0
    /\ OutputIdle
    /\ motion_field = EmptyField(10, 10)
    /\ cursor = [w \in DOMAIN Slices |-> 0]
    /\ written = {}
    /\ WarpIdle /\ SetupIdle /\ ScansIdle /\ SuperResIdle

\* One iteration of the inner loop of the call w.
SliceStep(w) ==
    /\ pc = "kernel"
    /\ cursor[w] < KernelLength(args[w])
    /\ LET position == KernelPosition(args[w], cursor[w])
           stores == KernelCell(args[w], position[1], position[2])
       IN  /\ motion_field' = StoreCells(motion_field, stores)
           /\ written' = written \cup { << w, x.cell >> : x \in stores }
    /\ cursor' = [cursor EXCEPT ![w] = @ + 1]
    /\ UNCHANGED warp_vars
    /\ UNCHANGED <<pure_vars, block_vars, output_vars, stack_vars,
                   found_new_mv, found_row_match, found_column_match, zero_mv,
                   pc, calls>>
    /\ UNCHANGED setup_vars /\ UNCHANGED superres_vars /\ UNCHANGED visited

SliceNext == \E w \in DOMAIN Slices : SliceStep(w)

SpecSlices == SliceInit /\ [][SliceNext]_vars

(***************************************************************************)
(* TemporalScan, one loop iteration at a time: the nested loops over the   *)
(* grid, the loop over temporal_sample_positions, then the iterations of   *)
(* AddTemporalReferenceMvCandidate over the samples collected.  args holds *)
(* temporal_mvs and temporal_reference_offsets, cursor the loop index and  *)
(* result the zero-MV context the last sample alone would give.            *)
(***************************************************************************)
MaxScanBlock == 4

TemporalFrameHeader ==
    [StackFrameHeader EXCEPT !.rows4x4 = 8, !.columns4x4 = 8]

TemporalBlocks ==
    { [row4x4 |-> p[1], column4x4 |-> p[2], width4x4 |-> p[3],
       height4x4 |-> p[3], width |-> 4 * p[3], height |-> 4 * p[3],
       is_compound |-> rf[2] # kReferenceFrameNone, reference_frame |-> rf]
      : p \in { q \in { << 0, 0, 2 >>, << 2, 2, 2 >>, << 6, 6, 2 >>,
                        << 7, 7, 1 >>, << 0, 0, 4 >>, << 4, 4, 4 >> } :
                 q[3] <= MaxScanBlock },
        rf \in { << kReferenceFrameBackward, kReferenceFrameNone >>,
                 << kReferenceFrameLast, kReferenceFrameBackward >> } }

TemporalInit ==
    /\ fn = "none" /\ applied = FALSE
    /\ args = << >> /\ result = -1
    /\ frame_header = TemporalFrameHeader
    /\ block \in TemporalBlocks
    /\ global_mv = GlobalMvOf(frame_header, block)
    /\ EmptyStacks
    /\ zero_mv = -1
    /\ pc = "grid"
    /\ calls = 0
    /\ OutputIdle
    /\ motion_field \in MotionFields(frame_header, block)
    /\ ProjectionIdle /\ WarpIdle /\ SetupIdle /\ ScansIdle /\ SuperResIdle

\* One iteration of the nested loops of lines 421-438.
TemporalVisitGrid ==
    /\ pc = "grid"
    /\ LET v == VisitGridPosition(frame_header, motion_field,
                                  TemporalGrid(block)[cursor + 1],
                                  cursor = 0, zero_mv)
       IN  /\ zero_mv' = v.zero_mv_context
           /\ args' = args \o v.collected
    /\ IF cursor + 1 < Len(TemporalGrid(block))
       THEN cursor' = cursor + 1 /\ pc' = pc
       ELSE cursor' = 0 /\ pc' = "positions"
    /\ UNCHANGED <<motion_field, written>> /\ UNCHANGED warp_vars
    /\ UNCHANGED <<fn, result, applied, block_vars, output_vars, stack_vars,
                   found_new_mv, found_row_match, found_column_match, calls>>
    /\ UNCHANGED setup_vars /\ UNCHANGED superres_vars /\ UNCHANGED visited

\* One iteration of the loop of lines 439-459, or its end.
TemporalVisitPosition ==
    /\ pc = "positions"
    /\ IF cursor < Len(TemporalSamplePositions(block))
       THEN /\ args' = args \o VisitSamplePosition(frame_header, block,
                          motion_field, TemporalSamplePositions(block)[cursor + 1])
            /\ cursor' = cursor + 1 /\ pc' = pc
       ELSE /\ args' = args /\ cursor' = 0
            /\ pc' = IF Len(args) # 0 THEN "candidates" ELSE "done"
    /\ UNCHANGED <<motion_field, written>> /\ UNCHANGED warp_vars
    /\ UNCHANGED <<fn, result, applied, block_vars, output_vars, stack_vars,
                   found_new_mv, found_row_match, found_column_match, zero_mv,
                   calls>>
    /\ UNCHANGED setup_vars /\ UNCHANGED superres_vars /\ UNCHANGED visited

\* One iteration of the do-while loop of AddTemporalReferenceMvCandidate.
TemporalAddCandidate ==
    /\ pc = "candidates"
    /\ LET sample == args[cursor + 1]
           t == AddTemporalSample(Ctx, ReferenceOffsets, sample.mv,
                                  sample.reference_offset, TemporalState)
           alone == AddTemporalSample(Ctx, ReferenceOffsets, sample.mv,
                      sample.reference_offset,
                      [TemporalState EXCEPT !.zero_mv_context = -1])
       IN  /\ WriteStacks(t)
           /\ zero_mv' = t.zero_mv_context
           /\ result' = alone.zero_mv_context
    /\ cursor' = cursor + 1
    /\ calls' = calls + 1
    /\ pc' = IF cursor + 1 < Len(args) THEN pc ELSE "done"
    /\ UNCHANGED <<motion_field, written>> /\ UNCHANGED warp_vars
    /\ UNCHANGED <<fn, args, applied, block_vars, output_vars, found_new_mv,
                   found_row_match, found_column_match>>
    /\ UNCHANGED setup_vars /\ UNCHANGED superres_vars /\ UNCHANGED visited

TemporalNext ==
    TemporalVisitGrid \/ TemporalVisitPosition \/ TemporalAddCandidate

SpecTemporal == TemporalInit /\ [][TemporalNext]_vars

(***************************************************************************)
(* FindWarpSamples for a block of 4 by 4 units, one AddSample call at a    *)
(* time.  args holds the locals top_left and top_right, cursor the loop    *)
(* index i, scanned what was done with each sample counted so far.         *)
(***************************************************************************)
MaxWarpDifference == 24

WarpFrameHeader ==
    [StackFrameHeader EXCEPT !.rows4x4 = 20, !.columns4x4 = 20]

WarpMv == << 24, -16 >>

WarpBlock(p) ==
    [row4x4 |-> p[1], column4x4 |-> p[2],
     width4x4 |-> 4, height4x4 |-> 4, width |-> 16, height |-> 16,
     reference_frame |-> << kReferenceFrameLast, kReferenceFrameNone >>,
     mv |-> << WarpMv, ZeroMv >>,
     top_available |-> p[1] > 0, left_available |-> p[2] > 0]

\* A decoded block's place, and the kinds of block drawn for it.
Shape(row4x4, column4x4, width4x4, height4x4, kinds) ==
    [row4x4 |-> row4x4, column4x4 |-> column4x4, width4x4 |-> width4x4,
     height4x4 |-> height4x4, kinds |-> kinds]

EdgeKinds == {"near", "far"}

LargeKinds == {"near", "far", "other"}

CornerKinds == {"near", "far", "compound"}

AboveShapes(p, layout) ==
    CASE layout = "small" ->
           { Shape(p[1] - 1, p[2] + i, 1, 1, EdgeKinds) : i \in 0 .. 3 }
      [] layout = "pairs" ->
           { Shape(p[1] - 2, p[2] + 2 * i, 2, 2, LargeKinds) :
               i \in 0 .. 1 }
      [] layout = "same" -> { Shape(p[1] - 4, p[2], 4, 4, LargeKinds) }
      [] layout = "wide" ->
           { Shape(p[1] - 4, p[2] - (p[2] % 8), 8, 4, LargeKinds) }
      [] OTHER -> {}

LeftShapes(p, layout) ==
    CASE layout = "small" ->
           { Shape(p[1] + i, p[2] - 1, 1, 1, EdgeKinds) : i \in 0 .. 3 }
      [] layout = "pairs" ->
           { Shape(p[1] + 2 * i, p[2] - 2, 2, 2, LargeKinds) :
               i \in 0 .. 1 }
      [] layout = "same" -> { Shape(p[1], p[2] - 4, 4, 4, LargeKinds) }
      [] layout = "tall" ->
           { Shape(p[1] - (p[1] % 8), p[2] - 4, 4, 8, LargeKinds) }
      [] OTHER -> {}

\* The blocks at the corners, where no block above or left covers them.
CornerShapes(p, shapes) ==
    { sh \in { Shape(p[1] - 1, p[2] - 1, 1, 1, CornerKinds),
               Shape(p[1] - 1, p[2] + 4, 1, 1, CornerKinds) } :
        /\ sh.row4x4 >= 0 /\ sh.column4x4 >= 0
        /\ ~HasParameters(shapes, sh.row4x4, sh.column4x4) }

ShapesOf(configuration) ==
    LET edges == AboveShapes(configuration[1], configuration[2])
                   \cup LeftShapes(configuration[1], configuration[3])
    IN  edges \cup CornerShapes(configuration[1], edges)

NeighbourOf(sh, kind) ==
    [row4x4 |-> sh.row4x4, column4x4 |-> sh.column4x4,
     width4x4 |-> sh.width4x4, height4x4 |-> sh.height4x4,
     reference_frame |->
       CASE kind = "other" -> << kReferenceFrameLast2, kReferenceFrameNone >>
         [] kind = "compound" -> << kReferenceFrameLast, kReferenceFrameBackward >>
         [] OTHER -> << kReferenceFrameLast, kReferenceFrameNone >>,
     mv |-> << IF kind = "far"
               THEN << WarpMv[1] - (MaxWarpDifference - 8), WarpMv[2] + 8 >>
               ELSE << WarpMv[1] + 8, WarpMv[2] - 8 >>,
               IF kind = "compound" THEN WarpMv ELSE ZeroMv >>]

WarpStores(configuration) ==
    LET shapes == ShapesOf(configuration)
    IN  { { NeighbourOf(sh, m[sh]) : sh \in shapes } :
            m \in { f \in [shapes -> EdgeKinds \cup LargeKinds \cup CornerKinds] :
                      \A sh \in shapes : f[sh] \in sh.kinds } }

\* Block position, layout of the blocks above, layout of the blocks left.
WarpConfigurations ==
    { << << 8, 8 >>, "small", "small" >>, << << 8, 8 >>, "same", "same" >>,
      << << 8, 8 >>, "pairs", "pairs" >>, << << 8, 8 >>, "wide", "small" >>,
      << << 8, 12 >>, "wide", "small" >>, << << 12, 8 >>, "small", "tall" >>,
      << << 0, 8 >>, "none", "small" >>, << << 8, 0 >>, "small", "none" >> }

UnwrittenCandidate == << >>

WarpInit ==
    /\ fn = "none" /\ applied = FALSE /\ result = 0
    /\ frame_header = WarpFrameHeader
    /\ \E configuration \in WarpConfigurations :
         /\ block = WarpBlock(configuration[1])
         /\ neighbours \in WarpStores(configuration)
    /\ global_mv = 0
    /\ EmptyStacks
    /\ zero_mv = 0 /\ calls = 0
    /\ nearest_mv_count = 0 /\ nearest_matches = 0 /\ scan_mv_found = -1
    /\ ref_mv_count = 0 /\ contexts = << 0, 0 >>
    /\ motion_field = 0 /\ written = {}
    /\ pc = "top" /\ cursor = 0
    /\ args = [top_left |-> TRUE, top_right |-> TRUE]
    /\ num_warp_samples = 0 /\ num_samples_scanned = 0
    /\ candidates = [i \in 0 .. kMaxLeastSquaresSamples - 1 |-> UnwrittenCandidate]
    /\ scanned = << >>
    /\ SetupIdle /\ ScansIdle /\ SuperResIdle

WarpState ==
    [num_warp_samples |-> num_warp_samples,
     num_samples_scanned |-> num_samples_scanned,
     candidates |-> candidates, scan |-> << >>]

\* A call of AddSample that also stores the block's vector into the block
\* the sample is taken from.
CallAddSample_StoresIntoNeighbour(delta_row, delta_column) ==
    LET w == AddSample(frame_header, block, neighbours, delta_row,
                       delta_column, WarpState)
        mv_bp == Parameters(neighbours, block.row4x4 + delta_row,
                            block.column4x4 + delta_column)
    IN  /\ num_warp_samples' = w.num_warp_samples
        /\ num_samples_scanned' = w.num_samples_scanned
        /\ candidates' = w.candidates
        /\ scanned' = scanned \o w.scan
        /\ calls' = calls + 1
        /\ neighbours' = IF w.scan = << >> THEN neighbours
                         ELSE (neighbours \ {mv_bp})
                                \cup {[mv_bp EXCEPT !.mv = block.mv]}

\* A call of AddSample and the stores it makes: through its pointers to
\* the counters and to candidates, none to the blocks it reads.
CallAddSample(delta_row, delta_column) ==
    LET w == AddSample(frame_header, block, neighbours, delta_row,
                       delta_column, WarpState)
    IN  /\ num_warp_samples' = w.num_warp_samples
        /\ num_samples_scanned' = w.num_samples_scanned
        /\ candidates' = w.candidates
        /\ scanned' = scanned \o w.scan
        /\ calls' = calls + 1
        /\ neighbours' = neighbours

\* Lines 844-867: the block above, or one iteration of the loop over the
\* blocks above, or the end of that loop.
WarpScanTop ==
    /\ pc = "top"
    /\ IF ~block.top_available
       THEN /\ pc' = "left" /\ cursor' = 0
            /\ UNCHANGED <<args, calls, neighbours>>
                     /\ UNCHANGED warp_vars
       ELSE LET source == Parameters(neighbours, block.row4x4 - 1,
                                     block.column4x4)
                column_offset == -(block.column4x4 % source.width4x4)
            IN  IF block.width4x4 <= source.width4x4
                THEN /\ args' = [top_left |-> args.top_left /\ column_offset >= 0,
                                 top_right |->
                                   /\ args.top_right
                                   /\ column_offset + source.width4x4
                                        <= block.width4x4]
                     /\ CallAddSample(-1, 0)
                     /\ pc' = "left" /\ cursor' = 0
                ELSE IF cursor < Min(block.width4x4,
                                     frame_header.columns4x4 - block.column4x4)
                THEN /\ CallAddSample(-1, cursor)
                     /\ cursor' = cursor +
                          Min(block.width4x4,
                              Parameters(neighbours, block.row4x4 - 1,
                                         block.column4x4 + cursor).width4x4)
                     /\ pc' = pc /\ args' = args
                ELSE /\ pc' = "left" /\ cursor' = 0
                     /\ UNCHANGED <<args, calls, neighbours>>
                     /\ UNCHANGED warp_vars
    /\ UNCHANGED <<motion_field, written>>
    /\ UNCHANGED <<fn, result, applied, block_vars, stack_vars, found_new_mv,
                   found_row_match, found_column_match, zero_mv,
                   nearest_mv_count, nearest_matches, scan_mv_found,
                   ref_mv_count, contexts>>
    /\ UNCHANGED setup_vars /\ UNCHANGED superres_vars /\ UNCHANGED visited

\* Lines 868-889: the same for the blocks left.
WarpScanLeft ==
    /\ pc = "left"
    /\ IF ~block.left_available
       THEN /\ pc' = "top_left" /\ cursor' = 0
            /\ UNCHANGED <<args, calls, neighbours>>
                     /\ UNCHANGED warp_vars
       ELSE LET source == Parameters(neighbours, block.row4x4,
                                     block.column4x4 - 1)
                row_offset == -(block.row4x4 % source.height4x4)
            IN  IF block.height4x4 <= source.height4x4
                THEN /\ args' = [args EXCEPT !.top_left = @ /\ row_offset >= 0]
                     /\ CallAddSample(0, -1)
                     /\ pc' = "top_left" /\ cursor' = 0
                ELSE IF cursor < Min(block.height4x4,
                                     frame_header.rows4x4 - block.row4x4)
                THEN /\ CallAddSample(cursor, -1)
                     /\ cursor' = cursor +
                          Min(block.height4x4,
                              Parameters(neighbours, block.row4x4 + cursor,
                                         block.column4x4 - 1).height4x4)
                     /\ pc' = pc /\ args' = args
                ELSE /\ pc' = "top_left" /\ cursor' = 0
                     /\ UNCHANGED <<args, calls, neighbours>>
                     /\ UNCHANGED warp_vars
    /\ UNCHANGED <<motion_field, written>>
    /\ UNCHANGED <<fn, result, applied, block_vars, stack_vars, found_new_mv,
                   found_row_match, found_column_match, zero_mv,
                   nearest_mv_count, nearest_matches, scan_mv_found,
                   ref_mv_count, contexts>>
    /\ UNCHANGED setup_vars /\ UNCHANGED superres_vars /\ UNCHANGED visited

\* Lines 890-897: the corner samples, then line 898.
WarpScanCorners ==
    /\ pc \in {"top_left", "top_right"}
    /\ IF pc = "top_left"
       THEN /\ IF args.top_left
               THEN CallAddSample(-1, -1)
               ELSE UNCHANGED <<calls, neighbours>> /\ UNCHANGED warp_vars
            /\ pc' = "top_right"
       ELSE /\ IF args.top_right /\ block.width <= 64 /\ block.height <= 64
               THEN CallAddSample(-1, block.width4x4)
               ELSE UNCHANGED <<calls, neighbours>> /\ UNCHANGED warp_vars
            /\ pc' = "last"
    /\ UNCHANGED <<motion_field, written, cursor, args>>
    /\ UNCHANGED <<fn, result, applied, block_vars, stack_vars, found_new_mv,
                   found_row_match, found_column_match, zero_mv,
                   nearest_mv_count, nearest_matches, scan_mv_found,
                   ref_mv_count, contexts>>
    /\ UNCHANGED setup_vars /\ UNCHANGED superres_vars /\ UNCHANGED visited

WarpReturn ==
    /\ pc = "last"
    /\ num_warp_samples' = ForceOneSample(num_warp_samples, num_samples_scanned)
    /\ pc' = "done"
    /\ UNCHANGED <<motion_field, written, neighbours, cursor, args, calls,
                   num_samples_scanned, candidates, scanned>>
    /\ UNCHANGED <<fn, result, applied, block_vars, stack_vars, found_new_mv,
                   found_row_match, found_column_match, zero_mv,
                   nearest_mv_count, nearest_matches, scan_mv_found,
                   ref_mv_count, contexts>>
    /\ UNCHANGED setup_vars /\ UNCHANGED superres_vars /\ UNCHANGED visited

WarpNext == WarpScanTop \/ WarpScanLeft \/ WarpScanCorners \/ WarpReturn

SpecWarp == WarpInit /\ [][WarpNext]_vars

(***************************************************************************)
(* The two derivations of a block: FindMvStack or FindWarpSamples, from    *)
(* entry to return.                                                        *)
(***************************************************************************)
DerivationInit == Init \/ WarpInit

DerivationNext == Next \/ WarpNext

SpecDerivation == DerivationInit /\ [][DerivationNext]_vars

(***************************************************************************)
(* Properties.                                                             *)
(***************************************************************************)

\* C4: for every found_new_mv, nearest_matches in 0..2 and total_matches in
\* 0..2, ComputeContexts yields new_mv = min(total,1), reference_mv = total
\* when nearest = 0; new_mv = 3 - found_new_mv, reference_mv = 2 + total when
\* nearest = 1; new_mv = 5 - found_new_mv, reference_mv = 5 when nearest = 2.
C4_ContextTable ==
    (fn = "ComputeContexts" /\ applied) =>
        LET f == BoolInt(args.found_new_mv)
            n == args.nearest_matches
            t == args.total_matches
        IN  /\ n = 0 => result = << (IF t < 1 THEN t ELSE 1), t >>
            /\ n = 1 => result = << 3 - f, 2 + t >>
            /\ n = 2 => result = << 5 - f, 5 >>

C4_Witness ==
    /\ fn = "ComputeContexts" /\ applied
    /\ args.nearest_matches = 1 /\ args.total_matches = 1
    /\ args.found_new_mv
    /\ result = <<2, 3>>

IsMultipleOf8(mv) == mv[1] % 8 = 0 /\ mv[2] % 8 = 0

RECURSIVE InsertStableByWeight(_, _)
InsertStableByWeight(x, s) ==
    IF s = <<>> THEN <<x>>
    ELSE IF WeightOf(Head(s)) >= WeightOf(x)
    THEN <<Head(s)>> \o InsertStableByWeight(x, Tail(s))
    ELSE <<x>> \o s

RECURSIVE StableSortFrom(_, _)
StableSortFrom(s, sorted) ==
    IF s = <<>> THEN sorted
    ELSE StableSortFrom(Tail(s), InsertStableByWeight(Head(s), sorted))

StableSortByWeight(s) == StableSortFrom(s, <<>>)

\* C8: for every stack of length 0 to 3 the compare-and-swap path of
\* SortWeightIndexStack gives the order of a stable descending sort by weight.
C8_SmallSortIsStableSort ==
    (fn = "SortWeightIndexStack" /\ applied /\ args.size <= 3) =>
        result = StableSortByWeight(args.stack)

C8_Witness ==
    /\ fn = "SortWeightIndexStack" /\ applied /\ args.size = 3
    /\ WeightOf(args.stack[1]) = WeightOf(args.stack[2])
    /\ WeightOf(args.stack[2]) < WeightOf(args.stack[3])
    /\ result = << args.stack[3], args.stack[1], args.stack[2] >>

(***************************************************************************)
(* Properties of the final ranking.                                        *)
(***************************************************************************)
DescendingFrom(wis, first, last) ==
    \A i \in first .. last - 1 : wis[i] >= wis[i + 1]

\* wis[first .. last] holds the entries of before[first .. last], each as
\* often.
PermutationWithin(before, wis, first, last) ==
    \A v \in { before[i] : i \in first .. last } \cup { wis[i] : i \in first .. last } :
      Cardinality({ i \in first .. last : wis[i] = v })
        = Cardinality({ i \in first .. last : before[i] = v })

\* C7: with at least 2 candidates the first nearest_mv_count entries of
\* weight_index_stack end in descending order and, when nearest_mv_count < 4,
\* so do the entries from nearest_mv_count to num_mv_found - 1; each group
\* holds the entries it held before the sorts, and no entry beyond
\* num_mv_found changes.
C7_GroupsSortedApart ==
    (fn = "SortNearestThenRest" /\ applied) =>
        LET n == args.nearest_mv_count
            m == args.num_mv_found
        IN  /\ DescendingFrom(result, 0, n - 1)
            /\ n < 4 => DescendingFrom(result, n, m - 1)
            /\ PermutationWithin(args.stack, result, 0, n - 1)
            /\ PermutationWithin(args.stack, result, n, m - 1)
            /\ \A i \in m .. kMaxRefMvStackSize - 1 : result[i] = args.stack[i]

\* Both groups were reordered and the heaviest entry of the second group
\* outweighs the lightest of the first.
C7_Witness ==
    /\ fn = "SortNearestThenRest" /\ applied
    /\ args.nearest_mv_count = 3 /\ args.num_mv_found = 6
    /\ result[0] # args.stack[0]
    /\ result[3] # args.stack[3]
    /\ result[3] > result[2]

(***************************************************************************)
(* Properties of the candidate insertion (SpecStack).                      *)
(***************************************************************************)
InsertionPhase == pc \in {"scan", "temporal"}

SameEntries(s) ==
    /\ s.ref_mv_stack = ref_mv_stack
    /\ s.compound_ref_mv_stack = compound_ref_mv_stack
    /\ s.num_mv_found = num_mv_found

\* s differs from the current arrays in the weight of entry k alone, which
\* has grown by weight.
OnlyWeightAdded(s, k, weight) ==
    /\ SameEntries(s)
    /\ WeightOf(s.weight_index_stack[k]) = WeightOf(weight_index_stack[k]) + weight
    /\ \A i \in StackIndices \ {k} :
         s.weight_index_stack[i] = weight_index_stack[i]

ScanInsertions ==
    { << mv_bp, weight >> \in StackNeighbours \X {4, 6} :
        CandidatesOf(mv_bp) # {} }

\* C1: no two of the first num_mv_found entries of the stack are equal, and
\* an insertion (spatial, of any weight, or temporal, of weight 2) whose
\* candidate equals entry k adds its weight to entry k and leaves
\* num_mv_found and every other entry and weight as they were.
C1_NoDuplicatesWeightsAccumulate ==
    InsertionPhase =>
      /\ \A j \in 0 .. num_mv_found - 1 : \A k \in j + 1 .. num_mv_found - 1 :
           StackEntry(j) # StackEntry(k)
      /\ \A in \in ScanInsertions :
           LET passed    == CandidatesOf(in[1])
           IN  \A k \in 0 .. num_mv_found - 1 :
                 passed = { StackEntry(k) } =>
                   OnlyWeightAdded(
                     AddReferenceMvCandidate(Ctx, in[1], block.is_compound, in[2],
                                             ScanState(found_new_mv, found_row_match)),
                     k, in[2])
      /\ \A sample \in StackSamples :
           LET candidate_mv == TemporalCandidateOf(sample)
           IN  \A k \in 0 .. num_mv_found - 1 :
                 candidate_mv = StackEntry(k) =>
                   OnlyWeightAdded(
                     AddTemporalSample(Ctx, ReferenceOffsets, sample[1], sample[2],
                                       TemporalState),
                     k, 2)

\* An entry inserted with weight 4 and met again with weight 6 has weight 10.
C1_Witness ==
    /\ InsertionPhase
    /\ result = "increased"
    /\ num_mv_found >= 2
    /\ \E k \in 0 .. num_mv_found - 1 : WeightOf(weight_index_stack[k]) = 10

\* C2: num_mv_found never exceeds kMaxRefMvStackSize (8); with 8 entries a
\* candidate equal to none of them leaves the entries, the weights and the
\* count as they were, while a spatial insertion still sets found_match, and
\* found_new_mv when the neighbour used a new-MV mode.
C2_CapacityDropsNewCandidates ==
    /\ num_mv_found <= kMaxRefMvStackSize
    /\ InsertionPhase /\ num_mv_found = kMaxRefMvStackSize =>
         /\ \A in \in ScanInsertions :
              (\A c \in CandidatesOf(in[1]) : ~InStack(c)) =>
                LET s == AddReferenceMvCandidate(Ctx, in[1], block.is_compound,
                                                 in[2], ScanState(FALSE, FALSE))
                IN  /\ SameEntries(s)
                    /\ s.weight_index_stack = weight_index_stack
                    /\ s.found_match
                    /\ s.found_new_mv = in[1].new_mv
         /\ \A sample \in StackSamples :
              ~InStack(TemporalCandidateOf(sample)) =>
                LET t == AddTemporalSample(Ctx, ReferenceOffsets, sample[1],
                                           sample[2], TemporalState)
                IN  /\ SameEntries(t)
                    /\ t.weight_index_stack = weight_index_stack

\* A full stack has just dropped a candidate of a scan.
C2_Witness ==
    /\ pc = "scan"
    /\ num_mv_found = kMaxRefMvStackSize
    /\ result = "dropped"
    /\ found_row_match

(***************************************************************************)
(* Properties of FindMvStack as a whole (Spec).                            *)
(***************************************************************************)
Returned == pc = "done"

\* ExtraSearch ran: the scans left fewer than 2 candidates.
ExtraSearched == Returned /\ scan_mv_found < 2

\* No position above, left of or at a corner of the block is in the tile.
NoNeighbourInside ==
    ~IsTopInside(block.row4x4) /\ ~IsLeftInside(block.column4x4)

\* C3 as stated: a single-prediction block without neighbours, in a frame
\* with use_ref_frame_mvs off, returns with ref_mv_count = 2, entries 0 and
\* 1 equal to global_mv[0] and zero_mv = 0.
C3_AsStated ==
    (Returned /\ ~block.is_compound /\ NoNeighbourInside
     /\ ~frame_header.use_ref_frame_mvs) =>
        /\ ref_mv_count = 2
        /\ ref_mv_stack[0] = global_mv[1] /\ ref_mv_stack[1] = global_mv[1]
        /\ zero_mv = 0

\* C3 (amended): a single-prediction block without neighbours, in a frame
\* with use_ref_frame_mvs off, returns with ref_mv_count = 0, entries 0 and
\* 1 equal to global_mv[0] with weight 0, and zero_mv = 0.
C3_GlobalFillNotCounted ==
    (Returned /\ ~block.is_compound /\ NoNeighbourInside
     /\ ~frame_header.use_ref_frame_mvs) =>
        /\ ref_mv_count = 0
        /\ ref_mv_stack[0] = global_mv[1] /\ ref_mv_stack[1] = global_mv[1]
        /\ WeightOf(weight_index_stack[0]) = 0
        /\ WeightOf(weight_index_stack[1]) = 0
        /\ zero_mv = 0

C3_Witness ==
    /\ Returned /\ ~block.is_compound /\ NoNeighbourInside
    /\ ~frame_header.use_ref_frame_mvs
    /\ global_mv[1] # ZeroMv
    /\ ref_mv_stack[1] = global_mv[1]

\* C5: when FindMvStack returns, zero_mv is 0 or 1, never -1, and it is 0
\* when use_ref_frame_mvs is off.
C5_ZeroMvDecided ==
    Returned =>
        /\ zero_mv \in {0, 1}
        /\ ~frame_header.use_ref_frame_mvs => zero_mv = 0

\* The first position of the motion field held no vector.
C5_Witness ==
    /\ Returned /\ frame_header.use_ref_frame_mvs
    /\ zero_mv = 1
    /\ num_mv_found = scan_mv_found /\ nearest_mv_count = scan_mv_found

\* C9 as stated: for compound prediction ExtraSearch returns with
\* num_mv_found = 2 and entries 0 and 1 both of weight 0.
C9_AsStated ==
    (ExtraSearched /\ block.is_compound) =>
        /\ num_mv_found = 2
        /\ WeightOf(weight_index_stack[0]) = 0
        /\ WeightOf(weight_index_stack[1]) = 0

\* C9 (amended): for compound prediction ExtraSearch returns with
\* num_mv_found = 2 and entry 1 of weight 0; entry 0 has weight 0 when the
\* scans found no candidate and keeps a weight of at least 2 when they found
\* one.
C9_SecondEntryWeightZero ==
    (ExtraSearched /\ block.is_compound) =>
        /\ num_mv_found = 2 /\ ref_mv_count = 2
        /\ WeightOf(weight_index_stack[1]) = 0
        /\ scan_mv_found = 0 => WeightOf(weight_index_stack[0]) = 0
        /\ scan_mv_found = 1 => WeightOf(weight_index_stack[0]) >= 2

C9_Witness ==
    /\ ExtraSearched /\ block.is_compound
    /\ scan_mv_found = 1
    /\ WeightOf(weight_index_stack[0]) > 0
    /\ compound_ref_mv_stack[1] # << global_mv[1], global_mv[2] >>

\* The entries ExtraSearch appended to a single-prediction stack differ from
\* every entry before them and have weight 0.
AppendedDistinct ==
    \A k \in scan_mv_found .. num_mv_found - 1 :
      /\ WeightOf(weight_index_stack[k]) = 0
      /\ \A j \in 0 .. k - 1 : ref_mv_stack[j] # ref_mv_stack[k]

\* C10 as stated: for single prediction ExtraSearch appends only vectors
\* that differ from every entry, with weight 0, and num_mv_found never
\* exceeds 2.
C10_AsStated ==
    (ExtraSearched /\ ~block.is_compound) =>
        AppendedDistinct /\ num_mv_found <= 2

\* C10 (amended): for single prediction ExtraSearch appends only vectors
\* that differ from every entry, with weight 0, and num_mv_found never
\* exceeds 3: a third entry is the second vector of the compound neighbour
\* that gave the second entry.
C10_AtMostThreeDistinct ==
    (ExtraSearched /\ ~block.is_compound) =>
        /\ AppendedDistinct
        /\ num_mv_found <= 3
        /\ num_mv_found = 3 =>
             \E bp \in { neighbours.above[0], neighbours.left[0] } :
               /\ bp.reference_frame[2] > kReferenceFrameIntra
               /\ ref_mv_stack[1] = SignAdjusted(Ctx, bp.reference_frame[1],
                                      block.reference_frame[1], bp.mv[1])
               /\ ref_mv_stack[2] = SignAdjusted(Ctx, bp.reference_frame[2],
                                      block.reference_frame[1], bp.mv[2])

C10_Witness ==
    /\ ExtraSearched /\ ~block.is_compound
    /\ scan_mv_found = 1
    /\ num_mv_found = 3 /\ ref_mv_count = 3



\* C12: for every vector, every numerator (clipped by the function to
\* -kMaxFrameDistance .. kMaxFrameDistance) and every denominator in
\* 1 .. kMaxFrameDistance, both components GetMvProjection stores lie in
\* -kProjectionMvClamp .. kProjectionMvClamp.
C12_ProjectionWithinClamp ==
    (fn = "GetMvProjection" /\ applied) =>
      \A i \in 1 .. 2 :
        /\ result[i] >= -kProjectionMvClamp
        /\ result[i] <= kProjectionMvClamp

\* A projection whose rounded product lies beyond the clamp on both sides.
C12_Witness ==
    /\ fn = "GetMvProjection" /\ applied
    /\ args.mv = << -32768, 32767 >> /\ args.numerator = 31
    /\ args.denominator = 3
    /\ result = << -kProjectionMvClamp, kProjectionMvClamp >>


\* C13: SetupGlobalMv yields the zero vector whenever the reference is intra
\* or the global-motion type of the reference is identity, for every block
\* position, every set of model parameters and both precision flags.
C13_ZeroForIntraOrIdentity ==
    ( /\ fn = "SetupGlobalMv" /\ applied
      /\ \/ args.reference_type = kReferenceFrameIntra
         \/ args.gm.type = kGlobalMotionTransformationTypeIdentity )
    => result = ZeroMv

\* An identity model with translation and zoom parameters set, for a block
\* away from the origin of a frame with high-precision vectors.
C13_Witness ==
    /\ fn = "SetupGlobalMv" /\ applied
    /\ args.reference_type = kReferenceFrameLast
    /\ args.gm.type = kGlobalMotionTransformationTypeIdentity
    /\ args.gm.params[0] = 45056 /\ args.gm.params[2] = 67584
    /\ args.block.row4x4 = 1 /\ args.block.column4x4 = 1
    /\ args.frame_header.allow_high_precision_mv
    /\ result = ZeroMv


\* The source frame of a call differs in size from the frame or is intra.
UnusableSource(fh, k) ==
    \/ k.source.rows4x4 # fh.rows4x4
    \/ k.source.columns4x4 # fh.columns4x4
    \/ IsIntraFrame(k.source.frame_type)

ValidCells(field) == { c \in DOMAIN field : field[c].mv[1] # kInvalidMvValue }

\* C11: a call of MotionFieldProjection whose source frame has rows4x4 or
\* columns4x4 different from the frame's, or is an intra frame, returns
\* false and leaves the vector and the reference offset of every cell of
\* the motion field as they were.
C11_UnusableSourceLeavesField ==
    [][ (calls' = calls + 1 /\ UnusableSource(frame_header, args'))
          => (result' = FALSE /\ motion_field' = motion_field) ]_vars

\* A call with a source frame of another size returned false after an
\* earlier call had stored vectors in the field.
C11_Witness ==
    /\ pc = "SetupMotionField" /\ calls = 2
    /\ args.source.columns4x4 # frame_header.columns4x4
    /\ args.source.frame_type = kFrameInter
    /\ args.reference_to_current_with_sign = 1
    /\ result = FALSE
    /\ Cardinality(ValidCells(motion_field)) >= 3


\* C16: every cell the projection has stored to holds a reference distance
\* in 1 .. kMaxFrameDistance; so in a field that started with no vector
\* stored, every cell with a valid vector, which are the cells TemporalScan
\* collects, has 0 < reference_offset <= kMaxFrameDistance, as
\* AddTemporalReferenceMvCandidate and GetMvProjection assert.
C16_StoredDistancesInRange ==
    pc = "SetupMotionField" =>
      \A c \in DOMAIN motion_field :
        \/ motion_field[c] = InvalidSample
        \/ /\ motion_field[c].reference_offset >= 1
           /\ motion_field[c].reference_offset <= kMaxFrameDistance

\* After two projections the field holds a cell at distance 1 and a cell at
\* distance kMaxFrameDistance, from a source that also has blocks whose
\* distances are out of range.
C16_Witness ==
    /\ pc = "SetupMotionField" /\ calls = 2
    /\ \E c \in ValidCells(motion_field) : motion_field[c].reference_offset = 1
    /\ \E c \in ValidCells(motion_field) :
         motion_field[c].reference_offset = kMaxFrameDistance
    /\ \E c \in DOMAIN args.source.reference_frame :
         args.reference_offsets[args.source.reference_frame[c]] > kMaxFrameDistance


\* C15: every cell a kernel call stores to, for a slice whose y8_start is a
\* multiple of 8, lies in the rows y8_start .. y8_end - 1 and the columns
\* x8_start .. x8_end - 1 of the slice; so two calls for disjoint row
\* ranges, however their iterations interleave, never store to the same
\* cell.
C15_StoresWithinSlice ==
    pc = "kernel" =>
      /\ \A x \in written :
           /\ x[2][1] >= args[x[1]].y8_start /\ x[2][1] < args[x[1]].y8_end
           /\ x[2][2] >= args[x[1]].x8_start /\ x[2][2] < args[x[1]].x8_end
      /\ \A x, y \in written : x[2] = y[2] => x[1] = y[1]

\* Both calls are through; the first stored to its last row and the second
\* to its first row, in a slice that starts at column 8, and the first
\* call read a block of its last row whose vector points a row further.
C15_Witness ==
    /\ pc = "kernel"
    /\ \A w \in DOMAIN Slices : cursor[w] = KernelLength(args[w])
    /\ args[1].x8_start = 8
    /\ \E x \in written : x[1] = 1 /\ x[2][1] = 7
    /\ \E x \in written : x[1] = 2 /\ x[2][1] = 8
    /\ \E c \in 0 .. 9 :
         KernelCell_NoRowCeiling(args[1], 7, c) # KernelCell(args[1], 7, c)

(***************************************************************************)
(* The zero-MV context of TemporalScan.                                    *)
(***************************************************************************)
\* The first position of the grid, inside the frame and without a vector.
FirstPositionUnavailable ==
    LET first == TemporalGrid(block)[1]
    IN  /\ IsBottomRightInside(frame_header, first[1], first[2])
        /\ motion_field[<< first[1] \div 2, first[2] \div 2 >>].mv[1]
             = kInvalidMvValue

\* Whether a component of the sample's projected, precision-lowered
\* candidate is 16 or more eighth-pels away from the global vector of its
\* reference direction.
FarFromGlobalMv(sample) ==
    \E i \in (IF block.is_compound THEN {1, 2} ELSE {1}) :
        LET lowered == LowerMvPrecision(frame_header,
                         GetMvProjection(sample.mv, ReferenceOffsets[i],
                                         sample.reference_offset))
        IN  \/ Abs(lowered[1] - global_mv[i][1]) >= 16
            \/ Abs(lowered[2] - global_mv[i][2]) >= 16

\* C17: once TemporalScan has returned, the zero-MV context is 1 when the
\* first position of the grid is inside the frame and has no vector;
\* otherwise it is decided by the first sample collected, 1 when that
\* sample's projected vector is 16 or more eighth-pels from the global
\* vector in a component and 0 when it is not; with no sample collected and
\* the first position not unavailable it is still -1.  Positions without a
\* vector other than the first never set it.
C17_ZeroMvDecisionRule ==
    pc = "done" =>
        zero_mv = IF FirstPositionUnavailable THEN 1
                  ELSE IF Len(args) = 0 THEN -1
                  ELSE BoolInt(FarFromGlobalMv(args[1]))

\* A scan whose first position holds a vector near the global one and that
\* met positions without a vector later on.
C17_Witness ==
    /\ pc = "done" /\ zero_mv = 0 /\ Len(TemporalGrid(block)) > 1
    /\ Len(args) < Len(TemporalGrid(block))

\* C18: a zero-MV context that holds 0 or 1 is never changed by a later
\* step of the scan.
C18_FirstDecisionStays ==
    [][(zero_mv \in {0, 1}) => (zero_mv' = zero_mv)]_vars

\* A later sample that alone would have decided the other way.
C18_Witness ==
    /\ cursor >= 2 /\ calls >= 2 /\ zero_mv \in {0, 1}
    /\ result \in {0, 1} /\ result # zero_mv

(***************************************************************************)
(* FindWarpSamples.                                                        *)
(***************************************************************************)
\* C19: in every state of FindWarpSamples, entered with both counters 0,
\* num_samples_scanned is at most kMaxLeastSquaresSamples,
\* num_warp_samples is at most num_samples_scanned, and every store to
\* candidates is at an index below kMaxLeastSquaresSamples.
C19_WarpCountersBounded ==
    /\ num_samples_scanned <= kMaxLeastSquaresSamples
    /\ num_warp_samples <= num_samples_scanned
    /\ \A n \in DOMAIN scanned : scanned[n].stored < kMaxLeastSquaresSamples
    /\ DOMAIN candidates = 0 .. kMaxLeastSquaresSamples - 1

\* Eight samples counted, and AddSample called once more.
C19_Witness ==
    /\ num_samples_scanned = kMaxLeastSquaresSamples
    /\ calls > kMaxLeastSquaresSamples
    /\ \E n \in DOMAIN scanned : scanned[n].stored = kMaxLeastSquaresSamples - 1

\* The first sample counted failed the threshold and no later one passed.
OnlyInvalidScanned ==
    /\ Len(scanned) > 0
    /\ \A n \in DOMAIN scanned : ~scanned[n].is_valid

\* FindWarpSamples has returned and the first sample it counted failed the
\* threshold.
ReturnedInvalidFirst ==
    pc = "done" /\ Len(scanned) > 0 /\ ~scanned[1].is_valid

\* The invalid first sample is among the num_warp_samples candidates the
\* caller is handed.
InvalidFirstCounted ==
    /\ ReturnedInvalidFirst
    /\ \E i \in 0 .. num_warp_samples - 1 :
         candidates[i] = scanned[1].candidate

InvalidStoredOnlyFirst ==
    \A n \in DOMAIN scanned :
        (~scanned[n].is_valid /\ scanned[n].stored # -1) => n = 1

\* C20 as the claim has it: a sample that fails the threshold is stored
\* only when it is the first sample counted, and an invalid first sample is
\* counted in the final num_warp_samples only if it is the only sample
\* scanned.
C20_AsStated ==
    /\ InvalidStoredOnlyFirst
    /\ InvalidFirstCounted => num_samples_scanned = 1

\* C20: a sample that fails the threshold is stored only when it is the
\* first sample counted, and once FindWarpSamples has returned an invalid
\* first sample is counted in num_warp_samples exactly when no sample
\* counted passed the threshold, however many were counted.
C20_InvalidFirstCountedWhenNoneValid ==
    /\ InvalidStoredOnlyFirst
    /\ ReturnedInvalidFirst => (InvalidFirstCounted <=> OnlyInvalidScanned)

\* An invalid first sample counted after three more samples were scanned.
C20_Witness ==
    InvalidFirstCounted /\ num_samples_scanned >= 4

C21_DegenerateSingleSample ==
    pc = "done" =>
        /\ num_warp_samples = 0 <=> num_samples_scanned = 0
        /\ OnlyInvalidScanned =>
              /\ num_warp_samples = 1
              /\ candidates[0] = scanned[1].candidate

\* A return after two or more samples none of which was valid.
C21_Witness ==
    /\ pc = "done" /\ OnlyInvalidScanned
    /\ num_samples_scanned >= 2 /\ num_warp_samples = 1

(***************************************************************************)
(* SetupMotionField.                                                       *)
(***************************************************************************)
\* The record of what SetupMotionField did for a reference, if it has
\* dealt with it.
Dealt(reference) ==
    { n \in DOMAIN projections : projections[n].reference = reference }

Considered(reference) ==
    \E n \in Dealt(reference) : projections[n].considered

\* MotionFieldProjection was called for the reference and returned true.
Succeeded(reference) ==
    \E n \in Dealt(reference) :
        projections[n].called /\ projections[n].returned

Successes(references) ==
    Cardinality({ reference \in references : Succeeded(reference) })

ForwardReferences ==
    {kReferenceFrameBackward, kReferenceFrameAlternate2,
     kReferenceFrameAlternate}

\* C22: SetupMotionField deals with the references in the order last,
\* backward, alt-ref-2, alt-ref, last-2; it considers alt-ref only if at
\* most one of backward and alt-ref-2 succeeded, last-2 only if at most one
\* of backward, alt-ref-2 and alt-ref succeeded; at most two of these three
\* succeed, ref_stamp is never below -1, and ref_stamp is 1 less the number
\* of these three that succeeded, whatever last and last-2 returned.
C22_RefStampPriority ==
    /\ \A n \in DOMAIN projections :
         /\ projections[n].reference =
              CASE n = 1 -> kReferenceFrameLast
                [] n = 2 -> kReferenceFrameBackward
                [] n = 3 -> kReferenceFrameAlternate2
                [] n = 4 -> kReferenceFrameAlternate
                [] OTHER -> kReferenceFrameLast2
         /\ n <= 5
    /\ Considered(kReferenceFrameAlternate) =>
         Successes({kReferenceFrameBackward, kReferenceFrameAlternate2}) <= 1
    /\ Considered(kReferenceFrameLast2) => Successes(ForwardReferences) <= 1
    /\ Successes(ForwardReferences) <= 2
    /\ ref_stamp >= -1
    /\ ref_stamp = 1 - Successes(ForwardReferences)

\* Last, backward and alt-ref-2 succeeded; alt-ref and last-2 were passed
\* over.
C22_Witness ==
    /\ pc = "done" /\ ref_stamp = -1
    /\ Succeeded(kReferenceFrameLast)
    /\ Succeeded(kReferenceFrameBackward)
    /\ Succeeded(kReferenceFrameAlternate2)
    /\ ~Considered(kReferenceFrameAlternate)
    /\ ~Considered(kReferenceFrameLast2)

\* C23 as the claim has it: the kernel is run for a reference only when
\* the reference's distance from the frame is positive and at most
\* kMaxFrameDistance.
C23_AsStated ==
    \A n \in DOMAIN projections :
        projections[n].kernel =>
            /\ projections[n].reference_offset > 0
            /\ projections[n].reference_offset <= kMaxFrameDistance

\* C23: the kernel is run for backward, alt-ref-2 or alt-ref only when the
\* reference's distance from the frame is positive and at most
\* kMaxFrameDistance, and for last or last-2 only when its absolute value
\* is at most kMaxFrameDistance: there it may be zero or negative.
C23_KernelDistances ==
    \A n \in DOMAIN projections :
        projections[n].kernel =>
            /\ projections[n].reference_offset <= kMaxFrameDistance
            /\ IF IsPastReference(projections[n].reference)
               THEN projections[n].reference_offset >= -kMaxFrameDistance
               ELSE projections[n].reference_offset > 0

\* The kernel run for last at a negative distance and for backward at a
\* positive one.
C23_Witness ==
    /\ Len(projections) >= 2
    /\ projections[1].kernel /\ projections[1].reference_offset < 0
    /\ projections[2].kernel /\ projections[2].reference_offset > 0

\* The last reference dealt with had MotionFieldProjection called.
LastCalled ==
    Len(projections) > 0 /\ projections[Len(projections)].called

\* C24 as the claim has it: MotionFieldProjection returns false exactly
\* when the source frame is intra or of other dimensions, and when it
\* returns true the kernel was run.
C24_AsStated ==
    LastCalled =>
        /\ ~result <=> UnusableSource(frame_header, args)
        /\ result => projections[Len(projections)].kernel

\* C24: MotionFieldProjection returns false exactly when the source frame
\* is intra or of other dimensions; when it returns true the kernel was
\* run exactly when the distance passed is at most kMaxFrameDistance, and
\* for a backward, alt-ref-2 or alt-ref reference ref_stamp was decreased
\* in either case.
C24_SkipAndSuccess ==
    LastCalled =>
        LET last == projections[Len(projections)]
        IN  /\ ~result <=> UnusableSource(frame_header, args)
            /\ result = last.returned
            /\ result =>
                 /\ last.kernel <=>
                      args.reference_to_current_with_sign <= kMaxFrameDistance
                 /\ ~IsPastReference(last.reference) =>
                      ref_stamp = -Successes(ForwardReferences \ {last.reference})

\* A backward reference beyond kMaxFrameDistance: true returned, ref_stamp
\* decreased, the kernel not run.
C24_Witness ==
    /\ Len(projections) = 2 /\ LastCalled
    /\ result /\ ~projections[2].kernel /\ ref_stamp = 0

(***************************************************************************)
(* The loops of the derivation, one iteration an action: a ScanRow or a    *)
(* ScanColumn at one offset, a ScanPoint, the insertions of TemporalScan,  *)
(* or ExtraSearch, for a block of 1 to 16 units at a position inside the   *)
(* frame, starting from an empty stack.  The block a loop reads is drawn   *)
(* when it is read.  args is [delta, pass, e]: the offset of the scan, and *)
(* pass and the arrays of ExtraSearch; cursor is the loop variable, calls  *)
(* the number of iterations made, visited the last block read.             *)
(***************************************************************************)
LoopFrameSize == 32

MaxLoopSamples == 3

\* ExtraSearch is followed for the blocks of at most this many units.
MaxExtraExtent == 8

LoopGlobalMotion ==
    [r \in kReferenceFrameIntra .. kReferenceFrameAlternate |->
       IF r = kReferenceFrameBackward
       THEN [StackGlobalMotion[r] EXCEPT
               !.type = kGlobalMotionTransformationTypeTranslation]
       ELSE StackGlobalMotion[r]]

LoopFrameHeader ==
    [StackFrameHeader EXCEPT !.rows4x4 = LoopFrameSize,
                             !.columns4x4 = LoopFrameSize,
                             !.global_motion = LoopGlobalMotion]

LoopBlocks ==
    { [row4x4 |-> p[1], column4x4 |-> p[2], width4x4 |-> p[3],
       height4x4 |-> p[3], width |-> 4 * p[3], height |-> 4 * p[3],
       is_compound |-> rf[2] # kReferenceFrameNone, reference_frame |-> rf]
      : p \in { << 9, 9, 1 >>, << 8, 8, 2 >>, << 8, 8, 4 >>, << 8, 8, 8 >>,
                << 16, 16, 16 >>, << 0, 8, 2 >>, << 8, 0, 2 >> },
        rf \in { << kReferenceFrameLast, kReferenceFrameNone >>,
                 << kReferenceFrameBackward, kReferenceFrameNone >>,
                 << kReferenceFrameLast, kReferenceFrameBackward >> } }

\* The blocks a loop can read, 1 or 4 units wide and high.
LoopCells ==
    { [c EXCEPT !.size = << n, n >>] :
        c \in { IntraCell,
                Cell(<< kReferenceFrameLast, kReferenceFrameNone >>,
                     << StackMv(1), ZeroMv >>, FALSE, FALSE),
                Cell(<< kReferenceFrameLast, kReferenceFrameNone >>,
                     << StackMv(2), ZeroMv >>, TRUE, TRUE),
                Cell(<< kReferenceFrameBackward, kReferenceFrameNone >>,
                     << StackMv(3), ZeroMv >>, TRUE, FALSE),
                Cell(<< kReferenceFrameLast, kReferenceFrameBackward >>,
                     << StackMv(1), StackMv(3) >>, FALSE, TRUE),
                Cell(<< kReferenceFrameLast, kReferenceFrameAlternate >>,
                     << StackMv(2), StackMv(1) >>, FALSE, FALSE) },
        n \in {1, 4} }

\* The blocks ExtraSearch can read: it does not look at their modes.
ExtraCells == { c \in LoopCells : ~c.new_mv }

LoopSamples ==
    { << StackMv(1), 1 >>, << StackMv(2), 2 >>, << NegateMv(StackMv(1)), 1 >> }

ExtraArrays ==
    [ref_id_count |-> [j \in 0 .. 1 |-> 0],
     ref_diff_count |-> [j \in 0 .. 1 |-> 0],
     ref_id |-> [j \in 0 .. 1 |-> [k \in 0 .. 1 |-> ZeroMv]],
     ref_diff |-> [j \in 0 .. 1 |-> [k \in 0 .. 1 |-> ZeroMv]]]

\* The block of the frame that covers (mv_row, mv_column) when it has the
\* size of mv_bp: blocks start at the multiples of their size.
NeighbourBlock(mv_bp, mv_row, mv_column) ==
    [row4x4 |-> (mv_row \div mv_bp.size[2]) * mv_bp.size[2],
     column4x4 |-> (mv_column \div mv_bp.size[1]) * mv_bp.size[1],
     width |-> 4 * mv_bp.size[1], height |-> 4 * mv_bp.size[2]]

\* The global vector a block computed for its first reference when it was
\* decoded.
OwnGlobalMv(fh, mv_bp, mv_row, mv_column) ==
    SetupGlobalMv(fh, mv_bp.reference_frame[1],
                  fh.global_motion[mv_bp.reference_frame[1]],
                  NeighbourBlock(mv_bp, mv_row, mv_column))

\* The block read at (mv_row, mv_column): a global-MV block stored its own
\* global vector.
Placed(fh, mv_bp, mv_row, mv_column) ==
    IF mv_bp.is_global_mv_block
    THEN [mv_bp EXCEPT !.mv[1] = OwnGlobalMv(fh, mv_bp, mv_row, mv_column)]
    ELSE mv_bp

\* The offsets FindMvStack gives to ScanRow (parity of the row) or to
\* ScanColumn (parity of the column).
ScanDeltas(parity, other_extent4x4) ==
    {-1, -3 + parity} \cup (IF other_extent4x4 > 1 THEN {-5 + parity} ELSE { })

LoopInit ==
    /\ applied = FALSE /\ result = 0
    /\ frame_header = LoopFrameHeader
    /\ block \in LoopBlocks
    /\ global_mv = GlobalMvOf(frame_header, block)
    /\ EmptyStacks
    /\ zero_mv = -1
    /\ \/ /\ pc = "ScanRow"
          /\ \E delta \in ScanDeltas(block.row4x4 % 2, block.height4x4) :
               args = [delta |-> delta, pass |-> 0, e |-> ExtraArrays]
       \/ /\ pc = "ScanColumn"
          /\ \E delta \in ScanDeltas(block.column4x4 % 2, block.width4x4) :
               args = [delta |-> delta, pass |-> 0, e |-> ExtraArrays]
       \/ /\ pc = "ScanPoint"
          /\ \E delta \in {-1, block.width4x4} :
               args = [delta |-> delta, pass |-> 0, e |-> ExtraArrays]
       \/ /\ pc = "TemporalInsert"
          /\ args = [delta |-> 0, pass |-> 0, e |-> ExtraArrays]
       \/ /\ pc = "ExtraSearch"
          /\ block.width4x4 <= MaxExtraExtent
          /\ args = [delta |-> 0, pass |-> 0, e |-> ExtraArrays]
    /\ fn = pc
    /\ cursor = 0 /\ calls = 0
    /\ OutputIdle
    /\ motion_field = 0 /\ written = {}
    /\ WarpIdle /\ SetupIdle /\ ScansIdle /\ SuperResIdle

\* The step without the extents: min_step alone, 0 for a nearest scan of a
\* block of less than 16 units.
ScanStep_MinimumOnly(extent4x4, mv_bp, min_step, dim) ==
    min_step

\* The step of an iteration of ScanRow (dim = 1) or ScanColumn (dim = 2).
ScanStep(extent4x4, mv_bp, min_step, dim) ==
    Max(Min(extent4x4, mv_bp.size[dim]), min_step)

\* An iteration of the do-while loop of a scan at dim, or the return before
\* the loop.  The scan started at (mv_row, mv_column): FindMvStack starts a
\* further scan at block.column4x4 | 1, or block.row4x4 | 1.
LoopScan(dim, inside, extent4x4, end_bps, mv_row, mv_column) ==
    IF ~inside
    THEN /\ pc' = "done"
         /\ UNCHANGED <<stack_vars, found_new_mv, found_row_match, cursor,
                        calls, visited>>
    ELSE \E cell \in LoopCells :
           LET row == IF dim = 1 THEN mv_row ELSE mv_row + cursor
               column == IF dim = 1 THEN mv_column + cursor ELSE mv_column
               mv_bp == Placed(frame_header, cell, row, column)
               step == ScanStep(extent4x4, mv_bp,
                                GetMinimumStep(extent4x4, args.delta), dim)
               s == AddReferenceMvCandidate(Ctx, mv_bp, block.is_compound,
                      2 * step, ScanState(found_new_mv, found_row_match))
           IN  /\ WriteStacks(s)
               /\ found_new_mv' = s.found_new_mv
               /\ found_row_match' = s.found_match
               /\ cursor' = cursor + step
               /\ calls' = calls + 1
               /\ visited' = << [offset |-> cursor, step |-> step,
                                 mv_bp |-> mv_bp, row |-> row,
                                 column |-> column] >>
               /\ pc' = IF cursor + step < end_bps THEN pc ELSE "done"

LoopScanRow ==
    /\ pc = "ScanRow"
    /\ LoopScan(1, IsTopInside(block.row4x4 + args.delta + 1), block.width4x4,
                Min(Min(block.width4x4,
                        frame_header.columns4x4 - block.column4x4), 16),
                block.row4x4 + args.delta,
                IF args.delta = -1 THEN block.column4x4
                ELSE OrOne(block.column4x4))
    /\ UNCHANGED <<motion_field, written>>
    /\ UNCHANGED warp_vars /\ UNCHANGED setup_vars /\ UNCHANGED superres_vars
    /\ UNCHANGED <<pure_vars, block_vars, output_vars, found_column_match,
                   zero_mv>>

LoopScanColumn ==
    /\ pc = "ScanColumn"
    /\ LoopScan(2, IsLeftInside(block.column4x4 + args.delta + 1),
                block.height4x4,
                Min(Min(block.height4x4,
                        frame_header.rows4x4 - block.row4x4), 16),
                IF args.delta = -1 THEN block.row4x4 ELSE OrOne(block.row4x4),
                block.column4x4 + args.delta)
    /\ UNCHANGED <<motion_field, written>>
    /\ UNCHANGED warp_vars /\ UNCHANGED setup_vars /\ UNCHANGED superres_vars
    /\ UNCHANGED <<pure_vars, block_vars, output_vars, found_column_match,
                   zero_mv>>

\* ScanPoint at (-1, delta).
LoopScanPoint ==
    /\ pc = "ScanPoint"
    /\ \E has_parameters \in BOOLEAN, cell \in LoopCells :
         LET mv_bp == IF IsInside(frame_header, block.row4x4 - 1,
                                  block.column4x4 + args.delta)
                      THEN Placed(frame_header, cell, block.row4x4 - 1,
                                  block.column4x4 + args.delta)
                      ELSE cell
             s == ScanPoint(Ctx, -1, args.delta, has_parameters, mv_bp,
                            ScanState(found_new_mv, found_row_match))
         IN  /\ WriteStacks(s)
             /\ found_new_mv' = s.found_new_mv
             /\ found_row_match' = s.found_match
             /\ visited' = IF ScanPointReads(Ctx, -1, args.delta,
                                             has_parameters, mv_bp) = { }
                           THEN << >>
                           ELSE << [offset |-> 0, step |-> 0, mv_bp |-> mv_bp,
                                    row |-> block.row4x4 - 1,
                                    column |-> block.column4x4 + args.delta] >>
    /\ calls' = calls + 1
    /\ pc' = "done"
    /\ UNCHANGED <<motion_field, written>>
    /\ UNCHANGED warp_vars /\ UNCHANGED setup_vars /\ UNCHANGED superres_vars
    /\ UNCHANGED <<pure_vars, block_vars, output_vars, found_column_match,
                   zero_mv, cursor>>

\* The insertion TemporalScan makes for one stored sample.
LoopTemporal ==
    /\ pc = "TemporalInsert"
    /\ \E sample \in LoopSamples :
         LET t == AddTemporalSample(Ctx, ReferenceOffsets, sample[1],
                                    sample[2], TemporalState)
         IN  /\ WriteStacks(t)
             /\ zero_mv' = t.zero_mv_context
    /\ calls' = calls + 1
    /\ pc' = IF calls + 1 < MaxLoopSamples THEN pc ELSE "done"
    /\ UNCHANGED <<motion_field, written>>
    /\ UNCHANGED warp_vars /\ UNCHANGED setup_vars /\ UNCHANGED superres_vars
    /\ UNCHANGED <<pure_vars, block_vars, output_vars, found_new_mv,
                   found_row_match, found_column_match, cursor, visited>>

\* The head of the loop over pass and an iteration of the loop over i of
\* ExtraSearch.
LoopExtraSearch ==
    /\ pc = "ExtraSearch"
    /\ LET num4x4 == Min(Min(Min(block.width4x4,
                                 frame_header.columns4x4 - block.column4x4),
                             Min(block.height4x4,
                                 frame_header.rows4x4 - block.row4x4)), 16)
           mv_row == block.row4x4 + (IF args.pass = 0 THEN -1 ELSE cursor)
           mv_column == block.column4x4 + (IF args.pass = 0 THEN cursor ELSE -1)
           NextPass == /\ args' = [args EXCEPT !.pass = @ + 1]
                       /\ cursor' = 0
                       /\ pc' = pc
       IN  IF ~(args.pass < 2 /\ num_mv_found < 2)
           THEN /\ pc' = "Merge"
                /\ UNCHANGED <<args, cursor, calls, visited, stack_vars>>
           ELSE IF ~(cursor < num4x4)
                   \/ ~IsTopLeftInside(mv_row + 1, mv_column + 1)
           THEN /\ NextPass
                /\ UNCHANGED <<calls, visited, stack_vars>>
           ELSE \E cell \in ExtraCells :
                LET bp == Placed(frame_header, cell, mv_row, mv_column)
                IN
                  /\ calls' = calls + 1
                  /\ visited' = << [offset |-> cursor,
                                    step |-> bp.size[args.pass + 1],
                                    mv_bp |-> bp, row |-> mv_row,
                                    column |-> mv_column] >>
                  /\ IF block.is_compound
                     THEN /\ args' = [args EXCEPT
                                        !.e = AddExtraCompoundMvCandidate(Ctx, bp, @)]
                          /\ cursor' = cursor + bp.size[args.pass + 1]
                          /\ pc' = pc
                          /\ UNCHANGED stack_vars
                     ELSE LET s == AddExtraSingleMvCandidate(Ctx, bp,
                                     ScanState(found_new_mv, found_row_match))
                          IN  /\ WriteStacks(s)
                              /\ IF s.num_mv_found >= 2
                                 THEN NextPass
                                 ELSE /\ cursor' = cursor + bp.size[args.pass + 1]
                                      /\ pc' = pc /\ args' = args
    /\ UNCHANGED <<motion_field, written>>
    /\ UNCHANGED warp_vars /\ UNCHANGED setup_vars /\ UNCHANGED superres_vars
    /\ UNCHANGED <<fn, result, applied, block_vars, output_vars, found_new_mv,
                   found_row_match, found_column_match, zero_mv>>

\* The end of ExtraSearch: the merge of the compound vectors or the fill
\* of the single ones.
LoopExtraMerge ==
    /\ pc = "Merge"
    /\ WriteStacks(IF block.is_compound
                   THEN ExtraSearchCompoundMerge(Ctx, args.e,
                          ScanState(found_new_mv, found_row_match))
                   ELSE ExtraSearchSingleFill(Ctx,
                          ScanState(found_new_mv, found_row_match)))
    /\ pc' = "done"
    /\ UNCHANGED <<motion_field, written>>
    /\ UNCHANGED warp_vars /\ UNCHANGED setup_vars /\ UNCHANGED superres_vars
    /\ UNCHANGED <<pure_vars, block_vars, output_vars, found_new_mv,
                   found_row_match, found_column_match, zero_mv, cursor, calls,
                   visited>>

LoopNext ==
    \/ LoopScanRow
    \/ LoopScanColumn
    \/ LoopScanPoint
    \/ LoopTemporal
    \/ LoopExtraSearch
    \/ LoopExtraMerge

SpecLoops == LoopInit /\ [][LoopNext]_vars

(***************************************************************************)
(* The derivation running to its end: FindWarpSamples, or one of the loops *)
(* of FindMvStack iteration by iteration.  The code is sequential and no   *)
(* statement waits for anything, so a step that can be taken is taken.     *)
(***************************************************************************)
\* Whether a loop ends depends on the extents and positions of the blocks,
\* not on their vectors: the runs followed to their end are those of the
\* blocks predicted from the backward reference alone, those of
\* ExtraSearch for the compound blocks of at most MaxCompoundExtent units,
\* and those of FindWarpSamples over neighbours that hold the same vectors.
MaxCompoundExtent == 4

TerminationInit ==
    \/ /\ WarpInit
       /\ \A m \in neighbours, n \in neighbours :
            m.reference_frame = n.reference_frame /\ m.mv = n.mv
    \/ /\ LoopInit
       /\ \/ block.reference_frame
              = << kReferenceFrameBackward, kReferenceFrameNone >>
          \/ /\ block.is_compound
             /\ pc = "ExtraSearch"
             /\ block.width4x4 <= MaxCompoundExtent

TerminationNext == WarpNext \/ LoopNext

SpecTermination ==
    TerminationInit /\ [][TerminationNext]_vars /\ WF_vars(TerminationNext)

(***************************************************************************)
(* found_new_mv as ComputeContexts receives it, against the blocks the     *)
(* scans of FindMvStack read.                                              *)
(***************************************************************************)
\* The neighbour is inter and has the reference(s) of the block.
MatchesReference(blk, mv_bp) ==
    /\ mv_bp.is_inter
    /\ IF blk.is_compound
       THEN /\ mv_bp.reference_frame[1] = blk.reference_frame[1]
            /\ mv_bp.reference_frame[2] = blk.reference_frame[2]
       ELSE \/ mv_bp.reference_frame[1] = blk.reference_frame[1]
            \/ mv_bp.reference_frame[2] = blk.reference_frame[1]

MatchedNewMv(scans) ==
    \E n \in DOMAIN visited :
      /\ visited[n].scan \in scans
      /\ \E mv_bp \in visited[n].cells :
           MatchesReference(block, mv_bp) /\ mv_bp.new_mv

\* C25 as stated: at the return of FindMvStack found_new_mv is true if and
\* only if a matching inter neighbour read in any scan, nearest or further,
\* used a new-MV prediction mode.
C25_AsStated ==
    pc = "done" /\ Len(visited) = 2 =>
      (found_new_mv <=> MatchedNewMv({"nearest", "further"}))

\* C25: at the return of FindMvStack found_new_mv is true if and only if a
\* matching inter neighbour read in the nearest scans (the row above, the
\* column to the left, the point above right) used a new-MV prediction
\* mode; the point above left and the rows and columns further away are
\* scanned with a flag that is thrown away.
C25_NearestScansOnly ==
    pc = "done" /\ Len(visited) = 2 =>
      (found_new_mv <=> MatchedNewMv({"nearest"}))

C25_Witness ==
    /\ pc = "done" /\ Len(visited) = 2
    /\ ~found_new_mv
    /\ MatchedNewMv({"further"})
    /\ nearest_matches = 1

(***************************************************************************)
(* The candidate SearchStack takes from a matching neighbour, seen as the  *)
(* first entry of the stack after the first iteration of a scan.           *)
(***************************************************************************)
SpatialScans == {"ScanRow", "ScanColumn", "ScanPoint"}

\* The first iteration of a scan of a single-prediction block read a
\* matching neighbour.
FirstSingleMatch ==
    /\ fn \in SpatialScans /\ calls = 1 /\ visited # << >>
    /\ ~block.is_compound
    /\ MatchesReference(block, visited[1].mv_bp)

\* The neighbour's vector for the reference that matched.
StoredMv(blk, mv_bp) ==
    IF mv_bp.reference_frame[1] = blk.reference_frame[1]
    THEN mv_bp.mv[1] ELSE mv_bp.mv[2]

\* C26 as stated: the candidate taken from a matching global-MV neighbour
\* is the global vector of that neighbour, the one it computed at its own
\* position; from another neighbour it is the stored vector.
C26_AsStated ==
    FirstSingleMatch =>
      ref_mv_stack[0] =
        IF visited[1].mv_bp.is_global_mv_block
        THEN OwnGlobalMv(frame_header, visited[1].mv_bp, visited[1].row,
                         visited[1].column)
        ELSE StoredMv(block, visited[1].mv_bp)

\* C26: the candidate taken from a matching global-MV neighbour is the
\* global vector of the current block, global_mv[0] as SetupGlobalMv
\* computed it at the block's position, when the global motion of the
\* block's reference is more than a translation; otherwise it is the
\* neighbour's stored vector for the reference that matched.
C26_CurrentBlockGlobalMv ==
    FirstSingleMatch =>
      /\ global_mv = GlobalMvOf(frame_header, block)
      /\ ref_mv_stack[0] =
           IF /\ visited[1].mv_bp.is_global_mv_block
              /\ frame_header.global_motion[block.reference_frame[1]].type
                   > kGlobalMotionTransformationTypeTranslation
           THEN global_mv[1]
           ELSE StoredMv(block, visited[1].mv_bp)

C26_Witness ==
    /\ FirstSingleMatch
    /\ visited[1].mv_bp.is_global_mv_block
    /\ ref_mv_stack[0] = global_mv[1]
    /\ ref_mv_stack[0] # visited[1].mv_bp.mv[1]
    /\ num_mv_found = 1

(***************************************************************************)
(* AddReferenceMvCandidate on a neighbour it does not use.                 *)
(***************************************************************************)
\* The neighbour is not inter, or the block is compound and one of the
\* neighbour's reference frames is not the block's.
NotUsed(blk, mv_bp) ==
    \/ ~mv_bp.is_inter
    \/ /\ blk.is_compound
       /\ \/ mv_bp.reference_frame[1] # blk.reference_frame[1]
          \/ mv_bp.reference_frame[2] # blk.reference_frame[2]

\* C27: an iteration of a scan that hands AddReferenceMvCandidate a
\* neighbour that is not inter or, for a compound block, a neighbour with a
\* reference frame other than the block's, leaves the stacks, the weights,
\* num_mv_found, found_match and found_new_mv as they were.
C27_UnusedNeighbourChangesNothing ==
    [][(/\ fn \in SpatialScans
        /\ calls' = calls + 1
        /\ visited' # << >>
        /\ NotUsed(block, visited'[1].mv_bp))
       => (/\ ref_mv_stack' = ref_mv_stack
           /\ compound_ref_mv_stack' = compound_ref_mv_stack
           /\ weight_index_stack' = weight_index_stack
           /\ num_mv_found' = num_mv_found
           /\ found_row_match' = found_row_match
           /\ found_new_mv' = found_new_mv)]_vars

C27_Witness ==
    /\ fn \in SpatialScans /\ calls >= 2 /\ visited # << >>
    /\ block.is_compound
    /\ visited[1].mv_bp.is_inter
    /\ visited[1].mv_bp.reference_frame[1] = block.reference_frame[1]
    /\ NotUsed(block, visited[1].mv_bp)
    /\ num_mv_found = 1 /\ found_row_match /\ found_new_mv

(***************************************************************************)
(* The weight of the insertions, seen as the growth of the sum of the      *)
(* weights of the stack over one iteration.                                *)
(***************************************************************************)
RECURSIVE SumOfWeights(_, _)
SumOfWeights(wis, num) ==
    IF num = 0 THEN 0
    ELSE WeightOf(wis[num - 1]) + SumOfWeights(wis, num - 1)

\* The number of insertions AddReferenceMvCandidate makes for a neighbour.
InsertionsFor(blk, mv_bp) ==
    IF NotUsed(blk, mv_bp) THEN 0
    ELSE IF blk.is_compound THEN 1
    ELSE Cardinality({ i \in {1, 2} :
                         mv_bp.reference_frame[i] = blk.reference_frame[1] })

\* step as the rule gives it, in units of 4 samples.
StepRule(block_extent, neighbour_extent, offset) ==
    LET min_step == IF block_extent >= 16 THEN 4
                    ELSE IF offset < -1 THEN 2
                    ELSE 0
    IN  IF block_extent < neighbour_extent
        THEN (IF block_extent > min_step THEN block_extent ELSE min_step)
        ELSE (IF neighbour_extent > min_step THEN neighbour_extent ELSE min_step)

WeightGrowth ==
    SumOfWeights(weight_index_stack', num_mv_found')
      - SumOfWeights(weight_index_stack, num_mv_found)

\* C28: each insertion of an iteration of ScanRow or ScanColumn adds the
\* weight 2 * step, step being max(min(block extent, neighbour extent),
\* min_step) with min_step 4 for a block of 16 units or more, else 2 for
\* an offset below -1, else 0; each insertion of ScanPoint adds 4, each
\* temporal insertion 2.
C28_InsertionWeights ==
    [][(calls' = calls + 1) =>
         CASE fn = "ScanRow" ->
                WeightGrowth = InsertionsFor(block, visited'[1].mv_bp) * 2
                  * StepRule(block.width4x4, visited'[1].mv_bp.size[1], args.delta)
           [] fn = "ScanColumn" ->
                WeightGrowth = InsertionsFor(block, visited'[1].mv_bp) * 2
                  * StepRule(block.height4x4, visited'[1].mv_bp.size[2], args.delta)
           [] fn = "ScanPoint" ->
                WeightGrowth = IF visited' = << >> THEN 0
                               ELSE InsertionsFor(block, visited'[1].mv_bp) * 4
           [] fn = "TemporalInsert" -> WeightGrowth = 2
           [] OTHER -> TRUE]_vars

C28_Witness ==
    /\ fn = "ScanRow" /\ calls = 2 /\ args.delta < -1
    /\ block.width4x4 = 4
    /\ visited[1].mv_bp.size[1] = 1 /\ visited[1].offset = 2
    /\ num_mv_found = 1
    /\ WeightOf(weight_index_stack[0]) = 8

(***************************************************************************)
(* Termination of the loops.                                               *)
(***************************************************************************)
\* An iteration of ScanRow, ScanColumn or ExtraSearch that stays in its
\* loop, or one of a loop of FindWarpSamples.
LoopIteration ==
    \/ fn \in {"ScanRow", "ScanColumn"} /\ calls' = calls + 1
    \/ fn = "ExtraSearch" /\ calls' = calls + 1 /\ args'.pass = args.pass
    \/ pc \in {"top", "left"} /\ pc' = pc

\* C29: each iteration of ScanRow, ScanColumn, ExtraSearch and of the loops
\* of FindWarpSamples moves the loop variable forward by at least 1, a
\* scan visits at most 16 neighbours, and FindWarpSamples and each of the
\* loops FindMvStack runs reach their return.
C29_LoopsTerminate ==
    /\ [][LoopIteration => cursor' >= cursor + 1]_vars
    /\ [](fn \in {"ScanRow", "ScanColumn"} => calls <= 16 /\ cursor <= 16 + 3)
    /\ <>(pc = "done")

C29_Witness ==
    /\ fn = "ScanRow" /\ pc = "done"
    /\ block.width4x4 = 8 /\ calls = 8 /\ cursor = 8

(***************************************************************************)
(* The vectors the compound extra search collects.                         *)
(***************************************************************************)
\* An iteration of ExtraSearch for a compound block.
CompoundExtraIteration ==
    fn = "ExtraSearch" /\ block.is_compound /\ calls' = calls + 1

CollectedAtMostTwo ==
    fn = "ExtraSearch" =>
      \A j \in 0 .. 1 : /\ args.e.ref_id_count[j] \in 0 .. 2
                        /\ args.e.ref_diff_count[j] \in 0 .. 2

\* The difference stored at ref_diff[j][k] by the iteration is the vector,
\* sign-adjusted, of a reference frame of the neighbour that is inter and,
\* unless same_allowed, is not the block's reference frame j.
DifferenceFrom(j, k, same_allowed) ==
    \E i \in {1, 2} :
      LET mv_bp == visited'[1].mv_bp
      IN  /\ mv_bp.reference_frame[i] > kReferenceFrameIntra
          /\ \/ mv_bp.reference_frame[i] # block.reference_frame[j + 1]
             \/ same_allowed
          /\ args'.e.ref_diff[j][k] =
               SignAdjusted(Ctx, mv_bp.reference_frame[i],
                            block.reference_frame[j + 1], mv_bp.mv[i])

\* C30 as stated: at most two same-reference matches and two differences
\* for each direction j, and each difference comes from a reference frame
\* of the neighbour other than the block's reference frame j.
C30_AsStated ==
    /\ []CollectedAtMostTwo
    /\ [][CompoundExtraIteration =>
            \A j \in 0 .. 1 :
              \A k \in args.e.ref_diff_count[j] .. args'.e.ref_diff_count[j] - 1 :
                DifferenceFrom(j, k, FALSE)]_vars

\* C30: at most two same-reference matches and two differences for each
\* direction j; a difference comes from an inter reference frame of the
\* neighbour that is not the block's reference frame j, or that is the
\* block's reference frame j once two same-reference matches were
\* collected for j.
C30_DifferencesAfterTwoMatches ==
    /\ []CollectedAtMostTwo
    /\ [][CompoundExtraIteration =>
            \A j \in 0 .. 1 :
              \A k \in args.e.ref_diff_count[j] .. args'.e.ref_diff_count[j] - 1 :
                DifferenceFrom(j, k, args.e.ref_id_count[j] = 2)]_vars

C30_Witness ==
    /\ fn = "ExtraSearch" /\ pc = "ExtraSearch" /\ block.is_compound
    /\ calls >= 3 /\ visited # << >>
    /\ args.e.ref_id_count[0] = 2
    /\ args.e.ref_diff_count[0] = 1
    /\ visited[1].mv_bp.reference_frame
         = << block.reference_frame[1], kReferenceFrameNone >>
    /\ args.e.ref_diff[0][0] = visited[1].mv_bp.mv[1]
    /\ args.e.ref_id[0][0] = visited[1].mv_bp.mv[1]

(***************************************************************************)
(* The assertions of the extra search.  FindMvStack is followed as in      *)
(* Spec, where ExtraSearch is entered with what the scans left in the      *)
(* stack, and ExtraSearch is followed iteration by iteration from an       *)
(* empty stack for the larger blocks, as in SpecLoops.                     *)
(***************************************************************************)
ExtraInit == Init \/ (LoopInit /\ pc = "ExtraSearch")

ExtraNext == Next \/ LoopExtraSearch \/ LoopExtraMerge

SpecExtra == ExtraInit /\ [][ExtraNext]_vars

\* The values of *num_mv_found at the assert of AddExtraSingleMvCandidate,
\* one for each reference frame of the neighbour that is inter.
AddExtraSingleMvChecks(ctx, bp, s) ==
    (IF bp.reference_frame[1] > kReferenceFrameIntra
     THEN { s.num_mv_found } ELSE { })
    \cup (IF bp.reference_frame[2] > kReferenceFrameIntra
          THEN { AddExtraSingleMv(ctx, bp, 0, s).num_mv_found } ELSE { })

\* The values at the assert over one pass of ExtraSearch for a block of
\* single prediction.
RECURSIVE ExtraSearchPassChecks(_, _, _, _, _, _)
ExtraSearchPassChecks(ctx, cells, pass, i, num4x4, s) ==
    IF i >= num4x4 THEN { }
    ELSE LET mv_row == ctx.block.row4x4 + (IF pass = 0 THEN -1 ELSE i)
             mv_column == ctx.block.column4x4 + (IF pass = 0 THEN i ELSE -1)
             bp == cells[i]
             s1 == AddExtraSingleMvCandidate(ctx, bp, s)
         IN  IF ~IsTopLeftInside(mv_row + 1, mv_column + 1) THEN { }
             ELSE AddExtraSingleMvChecks(ctx, bp, s)
                    \cup (IF s1.num_mv_found >= 2 THEN { }
                          ELSE ExtraSearchPassChecks(
                                 ctx, cells, pass,
                                 i + bp.size[IF pass = 0 THEN 1 ELSE 2],
                                 num4x4, s1))

\* What the three asserts of a call of ExtraSearch test: *num_mv_found in
\* AddExtraSingleMvCandidate, ref_id_count[i] at the merge, and
\* *num_mv_found in the else branch of the merge.
ExtraSearchChecks(ctx, above, left, s) ==
    LET x0 == [s |-> s, e |-> ExtraArrays]
        num4x4 == Min(Min(Min(ctx.block.width4x4,
                              ctx.frame_header.columns4x4 - ctx.block.column4x4),
                          Min(ctx.block.height4x4,
                              ctx.frame_header.rows4x4 - ctx.block.row4x4)), 16)
        x1 == IF s.num_mv_found < 2
              THEN ExtraSearchPass(ctx, above, 0, 0, num4x4, x0) ELSE x0
        x2 == IF x1.s.num_mv_found < 2
              THEN ExtraSearchPass(ctx, left, 1, 0, num4x4, x1) ELSE x1
    IN  [single |->
           IF ctx.block.is_compound THEN { }
           ELSE (IF s.num_mv_found < 2
                 THEN ExtraSearchPassChecks(ctx, above, 0, 0, num4x4, s)
                 ELSE { })
                \cup (IF x1.s.num_mv_found < 2
                      THEN ExtraSearchPassChecks(ctx, left, 1, 0, num4x4, x1.s)
                      ELSE { }),
         ref_id_count |->
           IF ctx.block.is_compound
           THEN { x2.e.ref_id_count[i] : i \in 0 .. 1 } ELSE { },
         merge_else |->
           IF ctx.block.is_compound /\ x2.s.num_mv_found # 1
           THEN { x2.s.num_mv_found } ELSE { }]

\* FindMvStack is about to call ExtraSearch.
CallsExtraSearch == pc = "Rank" /\ num_mv_found < 2

\* C31: the assertions of the extra search hold in every execution of
\* FindMvStack: *num_mv_found <= 2 at each assert of
\* AddExtraSingleMvCandidate, ref_id_count[i] <= 2 at the compound merge,
\* and *num_mv_found = 0 when the merge takes the branch that is not
\* *num_mv_found = 1.
C31_ExtraSearchAssertions ==
    /\ CallsExtraSearch =>
         LET c == ExtraSearchChecks(Ctx, neighbours.above, neighbours.left,
                                    StacksOf(found_new_mv, found_row_match,
                                             num_mv_found))
         IN  /\ \A n \in c.single : n <= 2
             /\ \A n \in c.ref_id_count : n <= 2
             /\ \A n \in c.merge_else : n = 0
    /\ (pc = "ExtraSearch" /\ ~block.is_compound
          /\ args.pass < 2 /\ num_mv_found < 2) =>
         \A cell \in ExtraCells :
           \A n \in AddExtraSingleMvChecks(
                      Ctx, cell, ScanState(found_new_mv, found_row_match)) :
             n <= 2
    /\ (pc = "Merge" /\ block.is_compound) =>
         /\ \A i \in 0 .. 1 : args.e.ref_id_count[i] <= 2
         /\ num_mv_found # 1 => num_mv_found = 0

\* ExtraSearch is called for a block of single prediction with one vector
\* found, and the second assert of AddExtraSingleMvCandidate is reached
\* with two.
C31_Witness ==
    /\ CallsExtraSearch /\ ~block.is_compound /\ num_mv_found = 1
    /\ 2 \in ExtraSearchChecks(Ctx, neighbours.above, neighbours.left,
                               StacksOf(found_new_mv, found_row_match,
                                        num_mv_found)).single

(***************************************************************************)
(* Super-resolution in the post filter.  A plane of the frame has          *)
(* (4 * rows4x4) >> subsampling_y rows; super_res_row upscales one row.    *)
(* upscaled keeps, for each row written, who wrote it.                     *)
(***************************************************************************)
\* frame_header_.rows4x4 of the frames followed.
MaxSuperResRows == 40

Planes(pf) == 0 .. pf.planes - 1

\* "If not doing cdef, then LR needs two rows of border with superres
\* applied."
NumRowsExtra(pf) == IF pf.do_cdef \/ ~pf.do_restoration THEN 0 ELSE 2

PlaneRows(pf, plane) == ShiftRight(4 * pf.rows4x4, pf.subsampling_y[plane])

\* The rows ApplySuperRes writes for src, dst at row[plane] and
\* rows[plane] rows: one super_res_row call a row, for each plane.
SuperResRows(pf, row, rows) ==
    UNION { { << plane, row[plane] + y >> : y \in 0 .. rows[plane] - 1 } :
              plane \in Planes(pf) }

\* upscaled after super_res_row wrote the rows of keys, called by "by".
Upscale(u, keys, by) ==
    [k \in DOMAIN u \cup keys |->
       (IF k \in DOMAIN u THEN u[k] ELSE << >>)
         \o (IF k \in keys THEN << by >> ELSE << >>)]

\* The first ApplySuperRes call of ApplySuperResForOneSuperBlockRow:
\* "the last 8-num_rows_extra rows of the previous superblock".
PreviousSuperBlockRows(pf, start) ==
    [row |-> [plane \in Planes(pf) |->
                ShiftRight(4 * (start - 2), pf.subsampling_y[plane])
                  + NumRowsExtra(pf)],
     rows |-> [plane \in Planes(pf) |->
                 ShiftRight(8, pf.subsampling_y[plane]) - NumRowsExtra(pf)]]

\* num_rows4x4 with no rows left to the next call.
NumRows4x4_WholeSuperBlock(pf, start, sb4x4, is_last_row) ==
    Min(sb4x4, pf.rows4x4 - start)

NumRows4x4(pf, start, sb4x4, is_last_row) ==
    Min(sb4x4, pf.rows4x4 - start) - (IF is_last_row THEN 0 ELSE 2)

\* The second call: "the current superblock row (except for the last
\* 8-num_rows_extra rows)".
CurrentSuperBlockRows(pf, start, sb4x4, is_last_row) ==
    [row |-> [plane \in Planes(pf) |->
                ShiftRight(4 * start, pf.subsampling_y[plane])],
     rows |-> [plane \in Planes(pf) |->
                 ShiftRight(4 * NumRows4x4(pf, start, sb4x4, is_last_row),
                            pf.subsampling_y[plane])
                   + (IF is_last_row THEN 0 ELSE NumRowsExtra(pf))]]

PostFilters ==
    { [rows4x4 |-> r, columns4x4 |-> 1, planes |-> p[1],
       subsampling_y |-> [plane \in 0 .. 2 |-> IF plane = 0 THEN 0 ELSE p[2]],
       do_cdef |-> c, do_restoration |-> l, num_threads |-> 1]
      : r \in 1 .. MaxSuperResRows,
        p \in { << 1, 0 >>, << 3, 0 >>, << 3, 1 >> },
        c \in BOOLEAN, l \in BOOLEAN }

SuperResInit ==
    /\ fn = "ApplySuperResForOneSuperBlockRow"
    /\ \E sb4x4 \in {16, 32} : args = [sb4x4 |-> sb4x4]
    /\ result = 0 /\ applied = FALSE
    /\ frame_header = 0 /\ block = 0 /\ global_mv = 0
    /\ EmptyStacks
    /\ zero_mv = -1
    /\ pc = "SuperBlockRow"
    /\ calls = 0 /\ cursor = 0 /\ written = {}
    /\ OutputIdle
    /\ motion_field = 0 /\ WarpIdle /\ SetupIdle /\ ScansIdle
    /\ post_filter \in PostFilters
    /\ row4x4_start = 0 /\ upscaled = << >>
    /\ jobs = << >> /\ pending_workers = 0 /\ line_buffer = { }

\* One call, for the superblock row at row4x4_start; the caller passes
\* is_last_row for the last superblock row of the frame.
ApplySuperResForOneSuperBlockRow ==
    /\ pc = "SuperBlockRow"
    /\ LET sb4x4 == args.sb4x4
           is_last_row == row4x4_start + sb4x4 >= post_filter.rows4x4
           previous == PreviousSuperBlockRows(post_filter, row4x4_start)
           current == CurrentSuperBlockRows(post_filter, row4x4_start, sb4x4,
                                            is_last_row)
           u1 == IF row4x4_start > 0
                 THEN Upscale(upscaled,
                              SuperResRows(post_filter, previous.row,
                                           previous.rows),
                              [row4x4_start |-> row4x4_start, call |-> 1])
                 ELSE upscaled
       IN  /\ upscaled' = Upscale(u1,
                                  SuperResRows(post_filter, current.row,
                                               current.rows),
                                  [row4x4_start |-> row4x4_start, call |-> 2])
           /\ row4x4_start' = row4x4_start + sb4x4
           /\ pc' = IF is_last_row THEN "done" ELSE pc
    /\ calls' = calls + 1
    /\ UNCHANGED <<post_filter, jobs, pending_workers, line_buffer>>
    /\ UNCHANGED <<fn, args, result, applied, block_vars, output_vars,
                   stack_vars, found_new_mv, found_row_match,
                   found_column_match, zero_mv, cursor, motion_field, written,
                   visited>>
    /\ UNCHANGED warp_vars /\ UNCHANGED <<ref_stamp, projections>>

SuperResNext == ApplySuperResForOneSuperBlockRow

SpecSuperRes == SuperResInit /\ [][SuperResNext]_vars

\* The rows of the plane a non-final call leaves to the next call.
RowsLeft(pf, plane) ==
    ShiftRight(8, pf.subsampling_y[plane]) - NumRowsExtra(pf)

\* The rows of the plane upscaled once the calls up to row4x4_start
\* (not included) have been made.
RowsDone(pf, plane, start, returned) ==
    IF returned THEN PlaneRows(pf, plane)
    ELSE IF start = 0 THEN 0
    ELSE ShiftRight(4 * start, pf.subsampling_y[plane]) - RowsLeft(pf, plane)

\* C32: over the calls for consecutive superblock rows, no row of a plane
\* is upscaled twice; after a non-final call the rows upscaled are those
\* before the last 8 - num_rows_extra luma rows (for a subsampled plane
\* (8 >> subsampling_y) - num_rows_extra rows) of its superblock row; the
\* rows a call left were upscaled by the first ApplySuperRes call of the
\* next one; after the final call every row of every plane is upscaled.
C32_EachRowUpscaledOnce ==
    fn = "ApplySuperResForOneSuperBlockRow" =>
      /\ \A k \in DOMAIN upscaled : Len(upscaled[k]) = 1
      /\ DOMAIN upscaled =
           { k \in Planes(post_filter) \X (0 .. 4 * post_filter.rows4x4) :
               k[2] < RowsDone(post_filter, k[1], row4x4_start, pc = "done") }
      /\ \A k \in DOMAIN upscaled :
           \A start \in { n * args.sb4x4 : n \in 1 .. calls - 1 } :
             LET boundary == ShiftRight(4 * start,
                                        post_filter.subsampling_y[k[1]])
             IN  (k[2] >= boundary - RowsLeft(post_filter, k[1])
                    /\ k[2] < boundary)
                 <=> upscaled[k][1] = [row4x4_start |-> start, call |-> 1]

\* Three calls were made for a frame of three planes with subsampled
\* chroma and loop restoration without cdef, and the last one returned.
C32_Witness ==
    /\ fn = "ApplySuperResForOneSuperBlockRow" /\ pc = "done" /\ calls = 3
    /\ post_filter.planes = 3 /\ post_filter.subsampling_y[1] = 1
    /\ NumRowsExtra(post_filter) = 2
    /\ post_filter.rows4x4 % args.sb4x4 = 1
    /\ upscaled[<< 1, 30 >>] = << [row4x4_start |-> 16, call |-> 1] >>

(***************************************************************************)
(* ApplySuperResThreaded.  The current thread gives one ApplySuperRes call *)
(* to each thread of the pool and makes the last one itself.  A job of the *)
(* pool runs at any time after it was scheduled, one row a step; its       *)
(* ApplySuperRes call is followed by pending_workers.Decrement().          *)
(* BlockingCounter (src/utils/blocking_counter.h) holds a count:           *)
(* Decrement lowers it by one, Wait returns once it is 0.                  *)
(***************************************************************************)
kSuperResHorizontalBorder == 8

kSuperResHorizontalPadding == 4

MaxThreadedRows == 4

MaxSuperResThreads == 3

ThreadPoolRows4x4(pf) == pf.rows4x4 \div pf.num_threads

\* The rows of the current thread without the remainder of the division.
CurrentThreadRows4x4_SameAsPool(pf) == ThreadPoolRows4x4(pf)

CurrentThreadRows4x4(pf) ==
    pf.rows4x4 - ThreadPoolRows4x4(pf) * (pf.num_threads - 1)

LineBufferSize(pf) ==
    (4 * pf.columns4x4 + 2 * kSuperResHorizontalBorder
       + kSuperResHorizontalPadding) * pf.pixel_size

\* The count the BlockingCounter is constructed with, were it one for each
\* call of ApplySuperRes.
PendingWorkers_OneForEachCall(pf) == pf.num_threads

PendingWorkers(pf) == pf.num_threads - 1

\* The arguments of the ApplySuperRes call of iteration i of the loop.
SuperResJob(pf, i, start) ==
    [row4x4_start |-> start,
     row |-> [plane \in Planes(pf) |->
                ShiftRight(4 * start, pf.subsampling_y[plane])],
     rows |-> [plane \in Planes(pf) |->
                 ShiftRight(4 * (IF i < pf.num_threads - 1
                                 THEN ThreadPoolRows4x4(pf)
                                 ELSE CurrentThreadRows4x4(pf)),
                            pf.subsampling_y[plane])],
     line_buffer_offset |-> i * LineBufferSize(pf),
     pool |-> i < pf.num_threads - 1,
     state |-> "scheduled", at |-> 0]

\* The rows of a call in the order ApplySuperRes deals with them.
RECURSIVE RowOrder(_, _, _)
RowOrder(pf, job, plane) ==
    IF plane >= pf.planes THEN << >>
    ELSE [y \in 1 .. Max(job.rows[plane], 0) |->
            << plane, job.row[plane] + y - 1 >>]
         \o RowOrder(pf, job, plane + 1)

\* The bytes of superres_line_buffer_ a row of the plane goes through:
\* memcpy writes plane_width pixels at line_buffer_start and ExtendLine
\* writes kSuperResHorizontalBorder pixels on each side.
LineBufferBytes(pf, job, plane) ==
    LET plane_width == ShiftRight(4 * pf.columns4x4, pf.subsampling_x[plane])
    IN  [first |-> job.line_buffer_offset,
         last |-> job.line_buffer_offset
                    + (plane_width + 2 * kSuperResHorizontalBorder)
                        * pf.pixel_size - 1]

\* The frames followed: those given to the most threads have one plane.
ThreadedPostFilters ==
    LET MostThreads(pf) == pf.num_threads = MaxSuperResThreads /\ pf.planes > 1
    IN
    { pf \in
    { [rows4x4 |-> r, columns4x4 |-> 1, planes |-> p[1],
       subsampling_x |-> [plane \in 0 .. 2 |-> IF plane = 0 THEN 0 ELSE p[2]],
       subsampling_y |-> [plane \in 0 .. 2 |-> IF plane = 0 THEN 0 ELSE p[2]],
       do_cdef |-> TRUE, do_restoration |-> FALSE, num_threads |-> n,
       pixel_size |-> px]
      : r \in 1 .. MaxThreadedRows,
        n \in 2 .. MaxSuperResThreads,
        p \in { << 1, 0 >>, << 3, 1 >> },
        px \in {1, 2} } :
      ~MostThreads(pf) }

ThreadedInit ==
    /\ fn = "ApplySuperResThreaded"
    /\ args = 0 /\ result = 0 /\ applied = FALSE
    /\ frame_header = 0 /\ block = 0 /\ global_mv = 0
    /\ EmptyStacks
    /\ zero_mv = -1
    /\ pc = "Schedule"
    /\ calls = 0 /\ cursor = 0 /\ written = {}
    /\ OutputIdle
    /\ motion_field = 0 /\ WarpIdle /\ SetupIdle /\ ScansIdle
    /\ post_filter \in ThreadedPostFilters
    /\ row4x4_start = 0 /\ upscaled = << >>
    /\ jobs = << >>
    /\ pending_workers = PendingWorkers(post_filter)
    /\ line_buffer = { }

ThreadedUnchanged ==
    /\ UNCHANGED <<fn, args, result, applied, block_vars, output_vars,
                   stack_vars, found_new_mv, found_row_match,
                   found_column_match, zero_mv, calls, cursor, motion_field,
                   written, visited, post_filter>>
    /\ UNCHANGED warp_vars /\ UNCHANGED <<ref_stamp, projections>>

\* An iteration of the loop over i: Schedule for a thread of the pool, or
\* the entry of the current thread into its own ApplySuperRes call.
ScheduleJob ==
    /\ pc = "Schedule"
    /\ LET i == Len(jobs)
       IN  /\ jobs' = Append(jobs, SuperResJob(post_filter, i, row4x4_start))
           /\ pc' = IF i < post_filter.num_threads - 1 THEN pc
                    ELSE "ApplySuperRes"
    /\ row4x4_start' = row4x4_start + ThreadPoolRows4x4(post_filter)
    /\ UNCHANGED <<upscaled, pending_workers, line_buffer>>
    /\ ThreadedUnchanged

\* One iteration of the loop over y of the ApplySuperRes call j.
SuperResRow(j) ==
    /\ jobs[j].state = "scheduled"
    /\ jobs[j].at < Len(RowOrder(post_filter, jobs[j], 0))
    /\ LET k == RowOrder(post_filter, jobs[j], 0)[jobs[j].at + 1]
           bytes == LineBufferBytes(post_filter, jobs[j], k[1])
       IN  /\ line_buffer' = line_buffer
                \cup { [job |-> j, first |-> bytes.first, last |-> bytes.last] }
           /\ upscaled' = Upscale(upscaled, { k }, j)
    /\ jobs' = [jobs EXCEPT ![j].at = @ + 1]
    /\ UNCHANGED <<pc, row4x4_start, pending_workers>>
    /\ ThreadedUnchanged

\* The ApplySuperRes call j returns: to the lambda of the pool, or to the
\* current thread, which leaves the loop.
ApplySuperResReturns(j) ==
    /\ jobs[j].state = "scheduled"
    /\ jobs[j].at = Len(RowOrder(post_filter, jobs[j], 0))
    /\ jobs' = [jobs EXCEPT ![j].state = IF jobs[j].pool THEN "returned"
                                         ELSE "done"]
    /\ pc' = IF jobs[j].pool THEN pc ELSE "Wait"
    /\ UNCHANGED <<row4x4_start, upscaled, pending_workers, line_buffer>>
    /\ ThreadedUnchanged

\* pending_workers.Decrement() at the end of the lambda.
Decrement(j) ==
    /\ jobs[j].pool /\ jobs[j].state = "returned"
    /\ pending_workers' = pending_workers - 1
    /\ jobs' = [jobs EXCEPT ![j].state = "done"]
    /\ UNCHANGED <<pc, row4x4_start, upscaled, line_buffer>>
    /\ ThreadedUnchanged

\* pending_workers.Wait() returns, and ApplySuperResThreaded with it.
Wait ==
    /\ pc = "Wait"
    /\ pending_workers = 0
    /\ pc' = "returned"
    /\ UNCHANGED <<row4x4_start, upscaled, jobs, pending_workers, line_buffer>>
    /\ ThreadedUnchanged

ThreadedNext ==
    \/ ScheduleJob
    \/ \E j \in DOMAIN jobs : SuperResRow(j)
    \/ \E j \in DOMAIN jobs : ApplySuperResReturns(j)
    \/ \E j \in DOMAIN jobs : Decrement(j)
    \/ Wait

SpecThreaded == ThreadedInit /\ [][ThreadedNext]_vars

\* The threads run: the current thread goes on with its loop and its Wait,
\* and a thread of the pool goes on with the job it was given.
JobStep(j) ==
    /\ j \in DOMAIN jobs
    /\ SuperResRow(j) \/ ApplySuperResReturns(j) \/ Decrement(j)

SpecThreadedFair ==
    /\ ThreadedInit /\ [][ThreadedNext]_vars
    /\ WF_vars(ScheduleJob) /\ WF_vars(Wait)
    /\ \A j \in 1 .. MaxSuperResThreads + 1 : WF_vars(JobStep(j))

\* The rows of the planes of the frame.
FrameRows(pf) ==
    { k \in Planes(pf) \X (0 .. 4 * pf.rows4x4) : k[2] < PlaneRows(pf, k[1]) }

\* The rows4x4 range of job j: from its row4x4_start, as many as rows[0]
\* luma rows make.
JobEnd(j) == jobs[j].row4x4_start + jobs[j].rows[0] \div 4

\* C33: the jobs of ApplySuperResThreaded have contiguous, pairwise
\* disjoint row ranges that cover [0, rows4x4) once, and each has its own
\* stretch of the line buffer at i * line_buffer_size, so that under every
\* interleaving no output row is written by two jobs (or twice), no byte of
\* the line buffer is written by two jobs, and every row of every plane is
\* written when the function returns.
C33_JobsDisjoint ==
    fn = "ApplySuperResThreaded" =>
      /\ \A j \in DOMAIN jobs :
           /\ jobs[j].row4x4_start = (IF j = 1 THEN 0 ELSE JobEnd(j - 1))
           /\ JobEnd(j) >= jobs[j].row4x4_start
           /\ jobs[j].rows[0] % 4 = 0
           /\ jobs[j].line_buffer_offset = (j - 1) * LineBufferSize(post_filter)
      /\ Len(jobs) = post_filter.num_threads =>
           JobEnd(Len(jobs)) = post_filter.rows4x4
      /\ \A k \in DOMAIN upscaled :
           /\ Len(upscaled[k]) = 1
           /\ k \in FrameRows(post_filter)
           /\ 4 * jobs[upscaled[k][1]].row4x4_start
                <= k[2] * Pow2(post_filter.subsampling_y[k[1]])
           /\ k[2] * Pow2(post_filter.subsampling_y[k[1]])
                < 4 * JobEnd(upscaled[k][1])
      /\ \A a \in line_buffer, b \in line_buffer :
           a.job # b.job => a.last < b.first \/ b.last < a.first
      /\ \A a \in line_buffer :
           /\ a.first >= (a.job - 1) * LineBufferSize(post_filter)
           /\ a.last < a.job * LineBufferSize(post_filter)
      /\ pc = "returned" => DOMAIN upscaled = FrameRows(post_filter)

\* Three jobs are under way at once, each with rows written and rows to
\* write, the last one with more rows than the others.
C33_Witness ==
    /\ fn = "ApplySuperResThreaded" /\ Len(jobs) = 3
    /\ post_filter.rows4x4 = 4 /\ post_filter.pixel_size = 2
    /\ \A j \in 1 .. 3 :
         /\ jobs[j].state = "scheduled"
         /\ jobs[j].at >= 1
         /\ jobs[j].at < Len(RowOrder(post_filter, jobs[j], 0))
    /\ jobs[3].rows[0] > jobs[1].rows[0]
    /\ Cardinality(line_buffer) >= 3

\* The jobs of the pool that have decremented the counter.
Decremented == { j \in DOMAIN jobs : jobs[j].pool /\ jobs[j].state = "done" }

\* C34: the blocking counter starts at num_threads - 1 and is lowered once
\* by each job of the pool, after its ApplySuperRes call has dealt with all
\* its rows; ApplySuperResThreaded returns only when every job it
\* scheduled has finished, and it does return.
C34_WaitCompletesAfterJobs ==
    /\ [](fn = "ApplySuperResThreaded" =>
            /\ pending_workers
                 = post_filter.num_threads - 1 - Cardinality(Decremented)
            /\ \A j \in Decremented :
                 jobs[j].at = Len(RowOrder(post_filter, jobs[j], 0))
            /\ pc = "returned" =>
                 /\ Len(jobs) = post_filter.num_threads
                 /\ Cardinality(Decremented) = post_filter.num_threads - 1
                 /\ \A j \in DOMAIN jobs :
                      /\ jobs[j].state = "done"
                      /\ jobs[j].at = Len(RowOrder(post_filter, jobs[j], 0)))
    /\ <>(pc = "returned")

\* The current thread waits while a job of the pool has rows to write.
C34_Witness ==
    /\ fn = "ApplySuperResThreaded" /\ pc = "Wait"
    /\ post_filter.num_threads = 3
    /\ pending_workers = 1
    /\ Cardinality(Decremented) = 1
    /\ \E j \in DOMAIN jobs :
         /\ jobs[j].pool /\ jobs[j].state = "scheduled"
         /\ jobs[j].at >= 1
         /\ jobs[j].at < Len(RowOrder(post_filter, jobs[j], 0))

(***************************************************************************)
(* LowerMvPrecision on the vectors the projection can produce: both        *)
(* components within kProjectionMvClamp.                                   *)
(***************************************************************************)
PrecisionInit ==
    /\ fn = "LowerMvPrecision"
    /\ \E fh \in FrameHeaders,
          c \in -kProjectionMvClamp .. kProjectionMvClamp :
         args = [frame_header |-> fh, mv |-> << c, -c >>]
    /\ result = 0
    /\ applied = FALSE
    /\ DerivationIdle

ApplyLowerMvPrecision ==
    /\ fn = "LowerMvPrecision" /\ ~applied
    /\ result' = LowerMvPrecision(args.frame_header, args.mv)
    /\ applied' = TRUE
    /\ UNCHANGED frame_vars /\ UNCHANGED warp_vars
    /\ UNCHANGED <<fn, args, block_vars, output_vars, stack_vars, found_new_mv,
                   found_row_match, found_column_match, zero_mv, pc, calls>>
    /\ UNCHANGED setup_vars /\ UNCHANGED superres_vars /\ UNCHANGED visited

PrecisionNext == ApplyLowerMvPrecision

SpecPrecision == PrecisionInit /\ [][PrecisionNext]_vars

\* C35: LowerMvPrecision applied to its own output changes nothing, for
\* every setting of allow_high_precision_mv and force_integer_mv and every
\* component within kProjectionMvClamp; with neither flag set it leaves an
\* even component as it is and moves an odd one by 1 toward zero.
C35_LowerMvPrecisionIdempotent ==
    (fn = "LowerMvPrecision" /\ applied) =>
      /\ LowerMvPrecision(args.frame_header, result) = result
      /\ (~args.frame_header.allow_high_precision_mv
            /\ ~args.frame_header.force_integer_mv) =>
           \A i \in 1 .. 2 :
             result[i] = IF args.mv[i] % 2 = 0 THEN args.mv[i]
                         ELSE IF args.mv[i] > 0 THEN args.mv[i] - 1
                         ELSE args.mv[i] + 1

\* An odd vector at the clamp was lowered in a frame with neither flag.
C35_Witness ==
    /\ fn = "LowerMvPrecision" /\ applied
    /\ ~args.frame_header.allow_high_precision_mv
    /\ ~args.frame_header.force_integer_mv
    /\ args.mv = << -kProjectionMvClamp, kProjectionMvClamp >>
    /\ result = << 1 - kProjectionMvClamp, kProjectionMvClamp - 1 >>

(***************************************************************************)
(* The samples TemporalScan collects, for the block sizes of AV1 at every  *)
(* position of a frame.  The loops read each cell of the motion field at   *)
(* most once, so what a cell holds is drawn when it is read.               *)
(***************************************************************************)
kMaxTemporalMvCandidates == 19

\* rows4x4 and columns4x4 of the frame.
CountFrameSize == 24

\* kNum4x4BlocksWide and kNum4x4BlocksHigh of the block sizes.
BlockSizes4x4 ==
    { << 1, 1 >>, << 1, 2 >>, << 2, 1 >>, << 2, 2 >>, << 2, 4 >>, << 4, 2 >>,
      << 4, 4 >>, << 4, 8 >>, << 8, 4 >>, << 8, 8 >>, << 8, 16 >>,
      << 16, 8 >>, << 16, 16 >>, << 16, 32 >>, << 32, 16 >>, << 32, 32 >>,
      << 1, 4 >>, << 4, 1 >>, << 2, 8 >>, << 8, 2 >>, << 4, 16 >>,
      << 16, 4 >> }

\* A block starts at a multiple of its size.
CountPositions ==
    { p \in BlockSizes4x4 \X (0 .. CountFrameSize - 1) \X (0 .. CountFrameSize - 1) :
        p[2] % p[1][2] = 0 /\ p[3] % p[1][1] = 0 }

CountBlocks ==
    { [row4x4 |-> p[2], column4x4 |-> p[3],
       width4x4 |-> p[1][1], height4x4 |-> p[1][2],
       width |-> 4 * p[1][1], height |-> 4 * p[1][2], is_compound |-> FALSE,
       reference_frame |-> << kReferenceFrameLast, kReferenceFrameNone >>]
      : p \in CountPositions }

CountSamples ==
    { [mv |-> UnwrittenMv, reference_offset |-> 0],
      [mv |-> StackMv(1), reference_offset |-> 1] }

CountInit ==
    /\ fn = "TemporalScan" /\ applied = FALSE
    /\ args = << >> /\ result = -1
    /\ frame_header = [StackFrameHeader EXCEPT !.rows4x4 = CountFrameSize,
                                               !.columns4x4 = CountFrameSize]
    /\ block \in CountBlocks
    /\ global_mv = 0
    /\ EmptyStacks
    /\ zero_mv = -1
    /\ pc = "grid"
    /\ calls = 0
    /\ OutputIdle
    /\ motion_field = 0
    /\ ProjectionIdle /\ WarpIdle /\ SetupIdle /\ ScansIdle /\ SuperResIdle

\* One iteration of the nested loops: temporal_mvs[count] is args[count+1].
CountVisitGrid ==
    /\ pc = "grid"
    /\ \E sample \in CountSamples :
         LET position == TemporalGrid(block)[cursor + 1]
             field == [c \in { << position[1] \div 2, position[2] \div 2 >> }
                         |-> sample]
             v == VisitGridPosition(frame_header, field, position, cursor = 0,
                                    zero_mv)
         IN  /\ zero_mv' = v.zero_mv_context
             /\ args' = args \o v.collected
    /\ IF cursor + 1 < Len(TemporalGrid(block))
       THEN cursor' = cursor + 1 /\ pc' = pc
       ELSE cursor' = 0 /\ pc' = "positions"
    /\ UNCHANGED <<motion_field, written>> /\ UNCHANGED warp_vars
    /\ UNCHANGED <<fn, result, applied, block_vars, output_vars, stack_vars,
                   found_new_mv, found_row_match, found_column_match, calls>>
    /\ UNCHANGED setup_vars /\ UNCHANGED superres_vars /\ UNCHANGED visited

\* One iteration of the loop over temporal_sample_positions, or its end.
CountVisitPosition ==
    /\ pc = "positions"
    /\ IF cursor < Len(TemporalSamplePositions(block))
       THEN \E sample \in CountSamples :
              LET q == TemporalSamplePositions(block)[cursor + 1]
                  field == [c \in { << (OrOne(block.row4x4) + q[1]) \div 2,
                                       (OrOne(block.column4x4) + q[2]) \div 2 >> }
                              |-> sample]
              IN  /\ args' = args \o VisitSamplePosition(frame_header, block,
                                                         field, q)
                  /\ cursor' = cursor + 1 /\ pc' = pc
       ELSE /\ args' = args /\ cursor' = 0 /\ pc' = "done"
    /\ UNCHANGED <<motion_field, written>> /\ UNCHANGED warp_vars
    /\ UNCHANGED <<fn, result, applied, block_vars, output_vars, stack_vars,
                   found_new_mv, found_row_match, found_column_match, zero_mv,
                   calls>>
    /\ UNCHANGED setup_vars /\ UNCHANGED superres_vars /\ UNCHANGED visited

CountNext == CountVisitGrid \/ CountVisitPosition

SpecCount == CountInit /\ [][CountNext]_vars

\* C36: in every state of TemporalScan the number of samples collected is
\* at most kMaxTemporalMvCandidates, for every block size and position, so
\* that every store to temporal_mvs and temporal_reference_offsets is
\* within the arrays.
C36_CountWithinArrays ==
    fn = "TemporalScan" => Len(args) <= kMaxTemporalMvCandidates

\* A block of 32x32 samples collected the sixteen samples of its grid and
\* two of the three positions around it.
C36_Witness ==
    /\ fn = "TemporalScan" /\ pc = "done"
    /\ block.width4x4 = 8 /\ block.height4x4 = 8
    /\ Len(args) = 18

(***************************************************************************)
(* FindMvStack from its first scan to its return, each call of            *)
(* AddReferenceMvCandidate and each iteration of                           *)
(* AddTemporalReferenceMvCandidate given a candidate of its own, so that   *)
(* the stacks fill up to kMaxRefMvStackSize.                               *)
(***************************************************************************)
ReturnInit ==
    /\ fn = "FindMvStack" /\ args = 0 /\ applied = FALSE
    /\ result = "none"
    /\ frame_header = StackFrameHeader
    /\ block \in StackBlocks
    /\ global_mv = GlobalMvOf(frame_header, block)
    /\ EmptyStacks
    /\ zero_mv = -1
    /\ pc = "nearest"
    /\ calls = 0
    /\ OutputIdle
    /\ motion_field = 0 /\ ProjectionIdle /\ WarpIdle /\ SetupIdle /\ ScansIdle
    /\ SuperResIdle

\* The result of a scan's call of AddReferenceMvCandidate; column tells
\* ScanColumn, which passes &found_column_match, from ScanRow and ScanPoint,
\* which pass &found_row_match.
ReturnCandidate(mv_bp, weight, new_mv_flag, column) ==
    AddReferenceMvCandidate(Ctx, mv_bp, block.is_compound, weight,
        ScanState(new_mv_flag,
                  IF column THEN found_column_match ELSE found_row_match))

ReturnWriteCandidate(mv_bp, column, s) ==
    /\ \A c \in CandidatesOf(mv_bp) : AllowedCandidate(c)
    /\ WriteStacks(s)
    /\ found_row_match' = (IF column THEN found_row_match ELSE s.found_match)
    /\ found_column_match' =
         (IF column THEN s.found_match ELSE found_column_match)
    /\ calls' = calls + WeightIncreases(weight_index_stack, s.weight_index_stack)
    /\ calls' <= MaxHits
    /\ result' = result

\* The neighbours are 2 units wide and none uses global motion.
ReturnWeights == { weight \in StackWeights : weight = 4 }

NearestNeighbours == { mv_bp \in StackNeighbours : ~mv_bp.is_global_mv_block }

\* The neighbours where the flag new_mv is not read: the calls store it to
\* dummy_bool, ExtraSearch does not look at it.
ReturnNeighbours == { mv_bp \in NearestNeighbours : ~mv_bp.new_mv }

\* A call of AddReferenceMvCandidate by the scans at -1 and ScanPoint above
\* right, with &found_new_mv.
ReturnAddNearest ==
    /\ pc = "nearest"
    /\ \E mv_bp \in NearestNeighbours, weight \in ReturnWeights, column \in BOOLEAN :
         LET s == ReturnCandidate(mv_bp, weight, found_new_mv, column)
         IN  /\ ReturnWriteCandidate(mv_bp, column, s)
             /\ found_new_mv' = s.found_new_mv
    /\ UNCHANGED frame_vars /\ UNCHANGED warp_vars
    /\ UNCHANGED <<fn, args, applied, block_vars, output_vars, zero_mv, pc>>
    /\ UNCHANGED setup_vars /\ UNCHANGED superres_vars /\ UNCHANGED visited

\* nearest_matches and prediction_parameters.nearest_mv_count.
ReturnStoreNearest ==
    /\ pc = "nearest"
    /\ nearest_matches' =
         BoolInt(found_row_match) + BoolInt(found_column_match)
    /\ nearest_mv_count' = num_mv_found
    /\ pc' = "temporal"
    /\ UNCHANGED frame_vars /\ UNCHANGED warp_vars
    /\ UNCHANGED <<pure_vars, block_vars, stack_vars, found_new_mv,
                   found_row_match, found_column_match, zero_mv, calls,
                   neighbours, scan_mv_found, ref_mv_count, contexts>>
    /\ UNCHANGED setup_vars /\ UNCHANGED superres_vars /\ UNCHANGED visited

\* TemporalScan is over.
ReturnBeginFurther ==
    /\ pc = "temporal"
    /\ pc' = "further"
    /\ UNCHANGED frame_vars /\ UNCHANGED warp_vars
    /\ UNCHANGED <<pure_vars, block_vars, output_vars, stack_vars, found_new_mv,
                   found_row_match, found_column_match, zero_mv, calls>>
    /\ UNCHANGED setup_vars /\ UNCHANGED superres_vars /\ UNCHANGED visited

\* A call of AddReferenceMvCandidate by ScanPoint above left and the scans
\* at -3 and -5, with &dummy_bool.
ReturnAddFurther ==
    /\ pc = "further"
    /\ \E mv_bp \in ReturnNeighbours, weight \in ReturnWeights, column \in BOOLEAN :
         ReturnWriteCandidate(mv_bp, column,
                              ReturnCandidate(mv_bp, weight, FALSE, column))
    /\ UNCHANGED frame_vars /\ UNCHANGED warp_vars
    /\ UNCHANGED <<fn, args, applied, block_vars, output_vars, found_new_mv,
                   zero_mv, pc>>
    /\ UNCHANGED setup_vars /\ UNCHANGED superres_vars /\ UNCHANGED visited

\* ExtraSearch, reading one block above and one on the left, or the sorts;
\* then ref_mv_count and ComputeContexts.
ReturnRank ==
    /\ pc = "further"
    /\ IF num_mv_found < 2
       THEN \E above \in ReturnNeighbours, left \in ReturnNeighbours :
              WriteStacks(ExtraSearch(Ctx, [i \in {0} |-> above],
                                      [i \in {0} |-> left],
                                      StacksOf(found_new_mv, found_row_match,
                                               num_mv_found)))
       ELSE /\ weight_index_stack' =
                 SortNearestThenRest(nearest_mv_count, num_mv_found,
                                     weight_index_stack)
            /\ UNCHANGED <<ref_mv_stack, compound_ref_mv_stack, num_mv_found>>
    /\ ref_mv_count' = num_mv_found'
    /\ contexts' = ComputeContexts(found_new_mv, nearest_matches,
                     BoolInt(found_row_match) + BoolInt(found_column_match))
    /\ pc' = "return"
    /\ UNCHANGED frame_vars /\ UNCHANGED warp_vars
    /\ UNCHANGED <<pure_vars, block_vars, found_new_mv, found_row_match,
                   found_column_match, zero_mv, calls, neighbours,
                   nearest_mv_count, nearest_matches, scan_mv_found>>
    /\ UNCHANGED setup_vars /\ UNCHANGED superres_vars /\ UNCHANGED visited

ReturnNext ==
    \/ ReturnAddNearest \/ ReturnStoreNearest \/ StackAddTemporal
    \/ ReturnBeginFurther \/ ReturnAddFurther \/ ReturnRank

SpecReturn == ReturnInit /\ [][ReturnNext]_vars

TotalMatches == BoolInt(found_row_match) + BoolInt(found_column_match)

\* C37: when FindMvStack returns, 0 <= nearest_mv_count <= ref_mv_count <=
\* kMaxRefMvStackSize, total_matches is at least nearest_matches, and the
\* contexts new_mv and reference_mv are both within 0 .. 5.
C37_ReturnedCounts ==
    pc = "return" =>
        /\ 0 <= nearest_mv_count
        /\ nearest_mv_count <= ref_mv_count
        /\ ref_mv_count <= kMaxRefMvStackSize
        /\ TotalMatches >= nearest_matches
        /\ contexts[1] \in 0 .. 5
        /\ contexts[2] \in 0 .. 5

\* FindMvStack returned a full stack, three of its entries found by the
\* nearest scans, with a match in a row only then and in a column later.
C37_Witness ==
    /\ pc = "return"
    /\ nearest_mv_count = 3
    /\ ref_mv_count = kMaxRefMvStackSize
    /\ nearest_matches = 1 /\ TotalMatches = 2
    /\ found_new_mv
    /\ contexts = << 2, 4 >>

====
